---- MODULE Spec2Model ----
(***************************************************************************)
(* Model of magpylib's path transforms (BaseTransform.move / rotate) and   *)
(* of the level-2 field wrapper getBH_level2.                              *)
(*                                                                         *)
(* Positions are integer 3-vectors, orientations are integer rotation      *)
(* matrices of the cube group (the 90 degree rotations), so that rotation  *)
(* composition is really non-commutative and application is really linear. *)
(* Paths are sequences; Python index i is TLA+ index i+1.                  *)
(***************************************************************************)
EXTENDS Integers, Sequences, FiniteSets, TLC

VARIABLES objs, tr, pc, fr

vars == <<objs, tr, pc, fr>>

\* ------------------------------------------------------------------ bounds
\* longest input path (displacements / rotations) handed to move / rotate
MaxIn == 3
\* number of move / rotate calls made in one behaviour
MaxOps == 1
\* longest object path in a getBH_level2 call
MaxM == 3

\* ------------------------------------------------------- vectors, rotations
Vadd(a, b) == <<a[1] + b[1], a[2] + b[2], a[3] + b[3]>>
Vsub(a, b) == <<a[1] - b[1], a[2] - b[2], a[3] - b[3]>>
Zero3 == <<0, 0, 0>>

\* scipy Rotation.apply: matrix times vector
Apply(r, v) ==
    [i \in 1..3 |-> r[i][1] * v[1] + r[i][2] * v[2] + r[i][3] * v[3]]

\* scipy Rotation.__mul__: (a * b) applies b first, then a
Mul(a, b) ==
    [i \in 1..3 |-> [j \in 1..3 |->
        a[i][1] * b[1][j] + a[i][2] * b[2][j] + a[i][3] * b[3][j]]]

\* scipy Rotation.inv: the transpose
Inv(r) == [i \in 1..3 |-> [j \in 1..3 |-> r[j][i]]]

UnitRot == <<<<1, 0, 0>>, <<0, 1, 0>>, <<0, 0, 1>>>>
\* 90 degrees about z and about x (they do not commute)
Rz == <<<<0, -1, 0>>, <<1, 0, 0>>, <<0, 0, 1>>>>
Rx == <<<<1, 0, 0>>, <<0, 0, -1>>, <<0, 1, 0>>>>

Range(f) == {f[i] : i \in DOMAIN f}

MaxOf(a, b) == IF a >= b THEN a ELSE b
MinOf(a, b) == IF a <= b THEN a ELSE b

\* ------------------------------------------------------------- the objects
Sources == {"b1", "sp", "b2"}
Sensors == {"s1", "s2"}
\* slots for the sensors getBH_level2 creates from bare positions
TmpSensors == {"t1", "t2"}
\* a collection among whose objects is a collection
NestedCollections == {"c2"}
Collections == {"c1", "c3", "cE"} \cup NestedCollections
\* objects that are no library objects: u1 has an _object_type that is in
\* neither LIBRARY_SOURCES nor LIBRARY_SENSORS, x1 has no _object_type
Strangers == {"u1", "x1"}
Ids == Sources \cup Sensors \cup TmpSensors \cup Collections \cup Strangers

\* the class of an object (isinstance tests of getBH_level2)
Kind(o) ==
    CASE o = "b1" -> "Box"
      [] o = "b2" -> "Box"
      [] o = "sp" -> "Sphere"
      [] o \in Sensors \cup TmpSensors -> "Sensor"
      [] o = "u1" -> "Unknown"
      [] o = "x1" -> "Foreign"
      [] OTHER -> "Collection"

\* Collection.objects / Collection.sources
Children(o) ==
    CASE o = "c1" -> <<"sp", "b1">>
      [] o = "c2" -> <<"c1", "b2">>
      [] o = "c3" -> <<"b1", "sp", "b2">>
      [] OTHER -> <<>>

StaticPath(p, r) == [pos |-> <<p>>, rot |-> <<r>>]

\* a pos_pix array: its shape and its pixels, flattened
PixOf(shape, flat) == [shape |-> shape, flat |-> flat]

\* np.pad(path, ((0, til), (0, 0)), "edge")
PadEdge(path, til) ==
    IF til <= 0 THEN path
    ELSE path \o [i \in 1..til |-> path[Len(path)]]

\* the start argument: an integer or the string 'append'
StartAt(i) == [tag |-> "int", v |-> i]
StartAppend == [tag |-> "append", v |-> 0]
\* the anchor argument: None or a vector
NoAnchor == [tag |-> "None", v |-> Zero3]
AnchorAt(p) == [tag |-> "vec", v |-> p]

\* ------------------------------------------------------ BaseTransform.move
\* utility.adjust_start: start -> index in [0, lenop]
adjust_start(start, lenop) ==
    LET s1 == IF start.tag = "append" THEN lenop
              ELSE IF start.v < 0 THEN start.v + lenop ELSE start.v
    IN  IF s1 < 0 THEN 0 ELSE IF s1 > lenop THEN lenop ELSE s1

\* the increment loop reading the entries of the unmodified input
MoveIncrementStale(inpath, i) ==
    [k \in 1..Len(inpath) |->
        IF k = 1 THEN inpath[1] ELSE Vadd(inpath[k], inpath[k - 1])]

\* the increment loop of _move: inpath[i+1] = inpath[i+1] + inpath[i],
\* run from the front, each step reading the entry the step before wrote
RECURSIVE MoveIncrement(_, _)
MoveIncrement(inpath, i) ==
    IF i >= Len(inpath) THEN inpath
    ELSE MoveIncrement(
            [inpath EXCEPT ![i + 1] = Vadd(inpath[i + 1], inpath[i])], i + 1)

\* old_ppath[start:end] += inpath
AddSlice(ppath, start, inpath) ==
    [i \in 1..Len(ppath) |->
        IF i > start /\ i <= start + Len(inpath)
        THEN Vadd(ppath[i], inpath[i - start])
        ELSE ppath[i]]

\* _move without the pad of the orientation path
move_no_orient_pad(o, displacement, start, increment) ==
    LET lenop == Len(o.pos)
        s     == adjust_start(start, lenop)
        inp   == IF increment THEN MoveIncrement(displacement, 1)
                 ELSE displacement
        til   == s + Len(inp) - lenop
        pp    == PadEdge(o.pos, til)
    IN  [pos |-> AddSlice(pp, s, inp), rot |-> o.rot]

\* BaseTransform._move on one target object (a path record)
_move(o, displacement, start, increment) ==
    LET lenop == Len(o.pos)
        s     == adjust_start(start, lenop)
        inp   == IF increment THEN MoveIncrement(displacement, 1)
                 ELSE displacement
        til   == s + Len(inp) - lenop
        pp    == PadEdge(o.pos, til)
        op    == PadEdge(o.rot, til)
    IN  [pos |-> AddSlice(pp, s, inp), rot |-> op]

\* ---------------------------------------------------- BaseTransform.rotate
\* the increment loop composing on the other side: rot1 = rot1 * r
RECURSIVE RotIncrementRight(_, _, _)
RotIncrementRight(rot, acc, i) ==
    IF i > Len(rot) THEN <<>>
    ELSE LET rot1 == IF i = 1 THEN rot[1] ELSE Mul(acc, rot[i])
         IN  <<rot1>> \o RotIncrementRight(rot, rot1, i + 1)

\* the increment loop of _rotate: rot1 = r * rot1 over rot[1:]
RECURSIVE RotIncrement(_, _, _)
RotIncrement(rot, acc, i) ==
    IF i > Len(rot) THEN <<>>
    ELSE LET rot1 == IF i = 1 THEN rot[1] ELSE Mul(rot[i], acc)
         IN  <<rot1>> \o RotIncrement(rot, rot1, i + 1)

\* _rotate composing the new rotation on the right of the old orientation
rotate_right_mul(o, rotation, anchor, start, increment) ==
    LET lenop == Len(o.pos)
        s     == adjust_start(start, lenop)
        rot   == IF increment THEN RotIncrement(rotation, UnitRot, 1)
                 ELSE rotation
        end   == s + Len(rot)
        til   == end - lenop
        pp    == PadEdge(o.pos, til)
        op    == PadEdge(o.rot, til)
        np    == [i \in 1..Len(pp) |->
                    IF anchor.tag # "None" /\ i > s /\ i <= end
                    THEN Vadd(Apply(rot[i - s], Vsub(pp[i], anchor.v)),
                              anchor.v)
                    ELSE pp[i]]
        no    == [i \in 1..Len(op) |->
                    IF i > s /\ i <= end
                    THEN Mul(op[i], rot[i - s])
                    ELSE op[i]]
    IN  [pos |-> np, rot |-> no]

\* _rotate storing the padded position path only when there is an anchor
rotate_pad_only_with_anchor(o, rotation, anchor, start, increment) ==
    LET lenop == Len(o.pos)
        s     == adjust_start(start, lenop)
        rot   == IF increment THEN RotIncrement(rotation, UnitRot, 1)
                 ELSE rotation
        end   == s + Len(rot)
        til   == end - lenop
        pp    == PadEdge(o.pos, til)
        op    == PadEdge(o.rot, til)
        np    == [i \in 1..Len(pp) |->
                    IF i > s /\ i <= end
                    THEN Vadd(Apply(rot[i - s], Vsub(pp[i], anchor.v)),
                              anchor.v)
                    ELSE pp[i]]
        no    == [i \in 1..Len(op) |->
                    IF i > s /\ i <= end
                    THEN Mul(rot[i - s], op[i])
                    ELSE op[i]]
    IN  [pos |-> IF anchor.tag # "None" THEN np ELSE o.pos, rot |-> no]

\* BaseTransform._rotate on one target object (a path record)
_rotate(o, rotation, anchor, start, increment) ==
    LET lenop == Len(o.pos)
        s     == adjust_start(start, lenop)
        rot   == IF increment THEN RotIncrement(rotation, UnitRot, 1)
                 ELSE rotation
        end   == s + Len(rot)
        til   == end - lenop
        pp    == PadEdge(o.pos, til)
        op    == PadEdge(o.rot, til)
        np    == [i \in 1..Len(pp) |->
                    IF anchor.tag # "None" /\ i > s /\ i <= end
                    THEN Vadd(Apply(rot[i - s], Vsub(pp[i], anchor.v)),
                              anchor.v)
                    ELSE pp[i]]
        no    == [i \in 1..Len(op) |->
                    IF i > s /\ i <= end
                    THEN Mul(rot[i - s], op[i])
                    ELSE op[i]]
    IN  [pos |-> np, rot |-> no]

\* the targets of a public move / rotate call: the children of a
\* Collection in order, then the object itself
Targets(t) ==
    Children(t) \o <<t>>

RECURSIVE MoveAll(_, _, _, _, _)
MoveAll(os, ts, displacement, start, increment) ==
    IF ts = <<>> THEN os
    ELSE MoveAll(
            [os EXCEPT ![Head(ts)] = _move(@, displacement, start, increment)],
            Tail(ts), displacement, start, increment)

RECURSIVE RotateAll(_, _, _, _, _, _)
RotateAll(os, ts, rotation, anchor, start, increment) ==
    IF ts = <<>> THEN os
    ELSE RotateAll(
            [os EXCEPT ![Head(ts)] =
                _rotate(@, rotation, anchor, start, increment)],
            Tail(ts), rotation, anchor, start, increment)

\* ---------------------------------------------------------- input domains
DispSet == {<<2, 0, 0>>, <<0, 1, 0>>}
RotSet == {Rz, Rx}
AnchorSet == {NoAnchor, AnchorAt(<<1, 0, 0>>)}
StartSet == {StartAt(i) : i \in {-2, -1, 0}} \cup {StartAppend}

\* the input paths of up to n entries: a first value, then repetitions of
\* a second (constant paths included)
PathsUpTo(S, n) ==
    {[k \in 1..len |-> IF k = 1 THEN a ELSE b] :
        a \in S, b \in S, len \in 1..n}

\* paths an object can have been given by earlier move / rotate calls
InitPathsT ==
    { [pos |-> <<Zero3>>, rot |-> <<UnitRot>>],
      [pos |-> <<<<1, 2, 0>>, <<3, 0, 1>>>>, rot |-> <<Rx, Rz>>],
      [pos |-> <<Zero3, <<1, 1, 0>>, <<0, 0, 5>>>>,
       rot |-> <<UnitRot, Rz, Mul(Rx, Rz)>>] }

\* the call frame of getBH_level2 before a call is made
NoFrame(os) ==
    [sources |-> <<>>, obs |-> [tag |-> "none", items |-> <<>>],
     sumup |-> FALSE, squeeze |-> FALSE, pre |-> os,
     src_list |-> <<>>, sensors |-> <<>>,
     tpix |-> [t \in TmpSensors |-> PixOf(<<3>>, <<Zero3>>)],
     pix_shape |-> <<>>, unrot |-> <<>>, static |-> <<>>,
     m |-> 0, reset |-> <<>>, poso |-> <<>>, B |-> <<>>, shape |-> <<>>,
     err |-> "none", stage |-> "none"]

\* ----------------------------------------------------------------- actions
Move(t, displacement, start, increment) ==
    /\ pc = "idle"
    /\ tr.n < tr.limit
    /\ objs' = MoveAll(objs, Targets(t), displacement, start, increment)
    /\ tr' = [n |-> tr.n + 1, limit |-> tr.limit, op |-> "move", target |-> t,
              inp |-> displacement, anchor |-> NoAnchor, start |-> start,
              increment |-> increment, pre |-> objs]
    /\ UNCHANGED <<pc, fr>>

\* the anchor of a Collection taken from the first entry of its position
\* path
CollectionAnchorFirst(os, t) == AnchorAt(os[t].pos[1])

\* line 85: anchor = self._position[-1], self being the Collection
CollectionAnchor(os, t) == AnchorAt(os[t].pos[Len(os[t].pos)])

\* lines 83-85: the anchor the targets of a rotate call are rotated about
RotateAnchor(os, t, anchor) ==
    IF anchor.tag = "None" /\ Kind(t) = "Collection"
    THEN CollectionAnchor(os, t) ELSE anchor

Rotate(t, rotation, anchor, start, increment) ==
    /\ pc = "idle"
    /\ tr.n < tr.limit
    /\ objs' = RotateAll(objs, Targets(t), rotation,
                 RotateAnchor(objs, t, anchor), start, increment)
    /\ tr' = [n |-> tr.n + 1, limit |-> tr.limit, op |-> "rotate", target |-> t,
              inp |-> rotation, anchor |-> anchor, start |-> start,
              increment |-> increment, pre |-> objs]
    /\ UNCHANGED <<pc, fr>>

TTargets == {"b1"}

\* the objects of the move / rotate calls: a box, and the collection c1
\* with its other child
IdsT == {"b1", "sp", "c1"}

InitT ==
    /\ \E p \in InitPathsT :
         objs = [o \in IdsT |-> IF o = "b1" THEN p
                               ELSE StaticPath(Zero3, UnitRot)]
    /\ tr = [n |-> 0, limit |-> MaxOps, op |-> "none", target |-> "b1", inp |-> <<>>,
             anchor |-> NoAnchor, start |-> StartAt(0), increment |-> FALSE,
             pre |-> objs]
    /\ pc = "idle"
    /\ fr = NoFrame(objs)

NextT ==
    \/ \E t \in TTargets, d \in PathsUpTo(DispSet, MaxIn), s \in StartSet,
          inc \in BOOLEAN : Move(t, d, s, inc)
    \/ \E t \in TTargets, r \in PathsUpTo(RotSet, MaxIn), a \in AnchorSet,
          s \in StartSet, inc \in BOOLEAN : Rotate(t, r, a, s, inc)

SpecT == InitT /\ [][NextT]_vars

\* ------------------------------------- move / rotate through a Collection
\* the targets of the calls: the box b1 directly, and the collection c1
\* (children sp, b1)
CTargets == {"b1", "c1"}

\* (input path, increment) of the calls
DispInputsC ==
    {<<<<(<<2, 0, 0>>)>>, FALSE>>, <<<<(<<2, 0, 0>>), (<<0, 1, 0>>)>>, TRUE>>}
RotInputsC ==
    {<<<<Rz>>, FALSE>>, <<<<Rz, Rx>>, TRUE>>, <<<<Rx, Rz>>, FALSE>>}
StartSetC == {StartAt(-1), StartAt(0), StartAppend}

\* the first child sp away from the collection's own position, the second
\* child b1 on a path, the collection at its default position
InitC ==
    /\ objs = [o \in IdsT |->
                 CASE o = "sp" -> StaticPath(<<0, 2, 0>>, Rx)
                   [] o = "b1" -> [pos |-> <<<<1, 0, 0>>, <<3, 0, 1>>>>,
                                   rot |-> <<UnitRot, Rz>>]
                   [] OTHER -> StaticPath(Zero3, UnitRot)]
    /\ tr = [n |-> 0, limit |-> MaxOps + 1, op |-> "none", target |-> "b1",
             inp |-> <<>>, anchor |-> NoAnchor, start |-> StartAt(0),
             increment |-> FALSE, pre |-> objs]
    /\ pc = "idle"
    /\ fr = NoFrame(objs)

NextC ==
    \/ \E t \in CTargets, d \in DispInputsC, s \in {StartAt(0), StartAppend} :
          Move(t, d[1], s, d[2])
    \/ \E t \in CTargets, r \in RotInputsC, a \in AnchorSet, s \in StartSetC :
          Rotate(t, r[1], a, s, r[2])

SpecC == InitC /\ [][NextC]_vars

\* ------------------------------------------ RCS (_lib/classes/base.py)
\* Numbers of the RCS class are floats: a value carries a flag telling
\* whether it is NaN. Angles are multiples of 180 degrees and axes are
\* parallel to a coordinate axis, which keeps the quaternions integer.

\* array(x, dtype=float64): the entries, and whether one of them is NaN
Arr(v) == [v |-> v, nan |-> FALSE]
NanArr(n) == [v |-> [i \in 1..n |-> 0], nan |-> TRUE]
\* float(x)
Num(x) == [v |-> x, nan |-> FALSE]
NanNum == [v |-> 0, nan |-> TRUE]

\* any(isnan(a)) or len(a) != 3
BadVec3(a) == a.nan \/ Len(a.v) # 3

\* fastSum3D(ax**2)
SumSq(a) == a.v[1] * a.v[1] + a.v[2] * a.v[2] + a.v[3] * a.v[3]

Sign(x) == IF x > 0 THEN 1 ELSE IF x < 0 THEN -1 ELSE 0

\* a / fastNorm3D(a) for a vector parallel to a coordinate axis; 0/0 is NaN
Unit(a) ==
    IF a.nan \/ SumSq(a) = 0 THEN NanArr(3)
    ELSE Arr([i \in 1..3 |-> Sign(a.v[i])])

\* cos and sin of half the angle, for angles that are multiples of 180
CosHalf(angle) ==
    CASE (angle \div 180) % 4 = 0 -> 1
      [] (angle \div 180) % 4 = 2 -> -1
      [] OTHER -> 0
SinHalf(angle) ==
    CASE (angle \div 180) % 4 = 1 -> 1
      [] (angle \div 180) % 4 = 3 -> -1
      [] OTHER -> 0

\* mathLibPrivate.getRotQuat: [cos(phi)] + sin(phi) * axis/|axis|
getRotQuat(angle, axis) ==
    LET u == Unit(axis)
    IN  IF angle.nan \/ u.nan THEN [q |-> <<0, 0, 0, 0>>, nan |-> TRUE]
        ELSE [q |-> <<CosHalf(angle.v), SinHalf(angle.v) * u.v[1],
                      SinHalf(angle.v) * u.v[2], SinHalf(angle.v) * u.v[3]>>,
              nan |-> FALSE]

\* mathLibPrivate.Qmult: the Hamilton product
Qmult(P, Q) ==
    LET p == P.q
        q == Q.q
    IN  [q |-> <<p[1]*q[1] - p[2]*q[2] - p[3]*q[3] - p[4]*q[4],
                 p[1]*q[2] + p[2]*q[1] + p[3]*q[4] - p[4]*q[3],
                 p[1]*q[3] - p[2]*q[4] + p[3]*q[1] + p[4]*q[2],
                 p[1]*q[4] + p[2]*q[3] - p[3]*q[2] + p[4]*q[1]>>,
         nan |-> P.nan \/ Q.nan]

\* mathLibPrivate.Qconj
Qconj(Q) == [q |-> <<Q.q[1], -Q.q[2], -Q.q[3], -Q.q[4]>>, nan |-> Q.nan]

\* arccosSTABLE(R[0])*180/pi*2 for a unit quaternion of the model
AngleOfQuat(R) ==
    IF R.nan THEN NanNum
    ELSE Num(CASE R.q[1] >= 1 -> 0
               [] R.q[1] <= -1 -> 360
               [] OTHER -> 180)

\* the object before it is constructed
NoRCS ==
    [created |-> FALSE, position |-> Arr(Zero3), angle |-> Num(0),
     axis |-> Arr(<<0, 0, 1>>)]

\* the record of a call on the RCS object
RCSCall(op, position, angle, axis, anchor, outcome) ==
    [n |-> tr.n + 1, limit |-> tr.limit, op |-> op, position |-> position,
     angle |-> angle, axis |-> axis, anchor |-> anchor, outcome |-> outcome,
     pre |-> objs]

SelfAnchor == [tag |-> "self", a |-> Arr(Zero3)]
AnchorVec(a) == [tag |-> "vec", a |-> a]

\* lines 34-45: RCS.__init__; sys.exit leaves the caller without an object
RCS_Init(position, angle, axis) ==
    /\ ~objs["m1"].created
    /\ tr.n < tr.limit
    /\ LET exit == BadVec3(position) \/ axis.nan \/ Len(position.v) # 3
       IN  /\ objs' = IF exit THEN objs
                      ELSE [objs EXCEPT !["m1"] =
                              [created |-> TRUE, position |-> position,
                               angle |-> angle, axis |-> axis]]
           /\ tr' = RCSCall("__init__", position, angle, axis, SelfAnchor,
                            IF exit THEN "SystemExit" ELSE "ok")
    /\ UNCHANGED <<pc, fr>>

\* lines 73-75: RCS.setPosition assigns, then checks
RCS_setPosition(newPos) ==
    /\ objs["m1"].created
    /\ tr.n < tr.limit
    /\ objs' = [objs EXCEPT !["m1"].position = newPos]
    /\ tr' = RCSCall("setPosition", newPos, objs["m1"].angle,
                     objs["m1"].axis, SelfAnchor,
                     IF BadVec3(newPos) THEN "SystemExit" ELSE "ok")
    /\ UNCHANGED <<pc, fr>>

\* lines 103-106: RCS.move checks, then adds; adding to a stored position
\* that has not 3 entries raises ValueError
RCS_move(displacement) ==
    /\ objs["m1"].created
    /\ tr.n < tr.limit
    /\ LET pos  == objs["m1"].position
           exit == BadVec3(displacement)
           bad  == ~exit /\ Len(pos.v) # 3
       IN  /\ objs' = IF exit \/ bad THEN objs
                      ELSE [objs EXCEPT !["m1"].position =
                              [v |-> Vadd(pos.v, displacement.v),
                               nan |-> pos.nan]]
           /\ tr' = RCSCall("move", displacement, objs["m1"].angle,
                            objs["m1"].axis, SelfAnchor,
                            IF exit THEN "SystemExit"
                            ELSE IF bad THEN "ValueError" ELSE "ok")
    /\ UNCHANGED <<pc, fr>>

\* lines 137-140: RCS.setOrientation assigns, then checks the axis for NaN
\* and the position for its length
RCS_setOrientation(angle, axis) ==
    /\ objs["m1"].created
    /\ tr.n < tr.limit
    /\ objs' = [objs EXCEPT !["m1"].angle = angle, !["m1"].axis = axis]
    /\ tr' = RCSCall("setOrientation", objs["m1"].position, angle, axis,
                     SelfAnchor,
                     IF axis.nan \/ Len(objs["m1"].position.v) # 3
                     THEN "SystemExit" ELSE "ok")
    /\ UNCHANGED <<pc, fr>>

\* lines 207-211 without the test for a zero angle
RotatedAxisNoDefault(R, ang3) == Unit([v |-> Tail(R.q), nan |-> R.nan])

\* lines 205-211: the axis stored by rotate
RotatedAxis(R, ang3) ==
    IF ~ang3.nan /\ ang3.v = 0 THEN Arr(<<0, 0, 1>>)
    ELSE Unit([v |-> Tail(R.q), nan |-> R.nan])

\* lines 176-217: RCS.rotate
RCS_rotate(angle, axis, anchor) ==
    /\ objs["m1"].created
    /\ tr.n < tr.limit
    /\ LET self == objs["m1"]
           anc  == IF anchor.tag = "self" THEN self.position ELSE anchor.a
           exit == \/ BadVec3(axis)
                   \/ SumSq(axis) = 0
                   \/ BadVec3(anc)
           \* getRotQuat of a stored axis that has not 3 entries
           idx  == ~exit /\ Len(self.axis.v) # 3
           Q    == getRotQuat(self.angle, self.axis)
           P    == getRotQuat(angle, axis)
           R    == Qmult(P, Q)
           ang3 == AngleOfQuat(R)
           ax3  == RotatedAxis(R, ang3)
           \* line 214 on a stored position that has not 3 entries
           shp  == ~exit /\ ~idx /\ Len(self.position.v) # 3
           Vold == [q |-> <<0>> \o Vsub(self.position.v, anc.v),
                    nan |-> self.position.nan]
           Vnew == Qmult(P, Qmult(Vold, Qconj(P)))
           pos  == [v |-> Vadd(Tail(Vnew.q), anc.v), nan |-> Vnew.nan]
       IN  /\ objs' =
                 IF exit \/ idx THEN objs
                 ELSE IF shp
                 THEN [objs EXCEPT !["m1"].angle = ang3, !["m1"].axis = ax3]
                 ELSE [objs EXCEPT !["m1"].angle = ang3, !["m1"].axis = ax3,
                                   !["m1"].position = pos]
           /\ tr' = RCSCall("rotate", self.position, angle, axis, anchor,
                            IF exit THEN "SystemExit"
                            ELSE IF idx THEN "IndexError"
                            ELSE IF shp THEN "ValueError" ELSE "ok")
    /\ UNCHANGED <<pc, fr>>

\* ------------------------- rotobj_from_angax (magpylib3 math_utility)
\* the rotation by a quarter turn about a unit axis u: u u^T + [u]x
QuarterTurn(u) ==
    LET x == <<<<0, -u[3], u[2]>>, <<u[3], 0, -u[1]>>, <<-u[2], u[1], 0>>>>
    IN  [i \in 1..3 |-> [j \in 1..3 |-> u[i] * u[j] + x[i][j]]]

\* R.from_rotvec(rotvec) for a rotvec of k quarter turns about u
RECURSIVE FromRotvec(_, _)
FromRotvec(k, u) ==
    IF k % 4 = 0 THEN UnitRot
    ELSE Mul(QuarterTurn(u), FromRotvec((k % 4) - 1, u))

\* lines 21-29: the angle is k quarter turns (k * pi/2 rad); a zero axis
\* gives rotvec = zeros(3), the identity
rotobj_from_angax(k, axis) ==
    IF SumSq(axis) = 0 THEN FromRotvec(0, axis.v)
    ELSE FromRotvec(k, Unit(axis).v)

Rotobj_from_angax(k, axis) ==
    /\ tr.n < tr.limit
    /\ tr' = [n |-> tr.n + 1, limit |-> tr.limit,
              op |-> "rotobj_from_angax", angle |-> Num(k), axis |-> axis,
              outcome |-> "ok", result |-> rotobj_from_angax(k, axis),
              pre |-> objs]
    /\ UNCHANGED <<objs, pc, fr>>

\* ------------------------------------------------- RCS: the population
RPositions == {Arr(<<1, 2, 3>>), Arr(<<1, 2>>), NanArr(3)}
RAngles == {Num(0), Num(180), Num(-180)}
\* orientation axes: two good ones, one with 2 components, one with NaN
RAxes == {Arr(<<0, 0, 1>>), Arr(<<2, 0, 0>>), Arr(<<1, 2>>), NanArr(3)}
\* rotation axes: these and the zero vector
RRotAxes == RAxes \cup {Arr(Zero3)}
RAnchors == {SelfAnchor, AnchorVec(Arr(<<1, 0, 0>>)), AnchorVec(Arr(<<1, 2>>))}

InitR ==
    /\ objs = [o \in {"m1"} |-> NoRCS]
    /\ tr = [n |-> 0, limit |-> MaxOps + 1, op |-> "none", pre |-> objs,
             outcome |-> "ok"]
    /\ pc = "idle"
    /\ fr = NoFrame(objs)

NextR ==
    \/ \E p \in RPositions, a \in {Num(0), Num(180)}, x \in RAxes :
          RCS_Init(p, a, x)
    \/ \E p \in RPositions : RCS_setPosition(p)
    \/ \E d \in RPositions : RCS_move(d)
    \/ \E a \in RAngles, x \in RAxes : RCS_setOrientation(a, x)
    \/ \E a \in RAngles, x \in RRotAxes, c \in RAnchors : RCS_rotate(a, x, c)
    \/ \E k \in {0, 1, 2}, x \in {Arr(<<0, 0, 1>>), Arr(<<0, 3, 0>>),
                                    Arr(Zero3)} : Rotobj_from_angax(k, x)

SpecR == InitR /\ [][NextR]_vars

\* ------------------------------------------------ BaseSource.field_func
\* A source is a record: editable is the class attribute
\* _editable_field_func, field_func the stored _field_func, validated the
\* number of validate_field_func calls made for it, calls the number of
\* getB / getH calls.
FSources == {"cs1", "cb1"}

\* _editable_field_func: True for the custom source, the default False for
\* an original source
Editable(o) == o = "cs1"

\* validate_field_func: a callable with the arguments (field, observers)
\* passes, anything else raises
ValidFunc(val) == val \in {"f", "g"}

\* the values assigned: two conforming callables, a callable with the
\* wrong arguments, a string
FuncInputs == {"f", "g", "wrong_args", "not_callable"}

\* a source as its class defines it, before __init__
FreshSource(o) ==
    [editable |-> Editable(o), field_func |-> "None", validated |-> 0,
     calls |-> 0]

\* the setter storing the value before it is validated
field_func_store_first(o, val) ==
    IF o.editable
    THEN [obj |-> [o EXCEPT !.field_func = val, !.validated = @ + 1],
          outcome |-> IF ValidFunc(val) THEN "ok"
                      ELSE "MagpylibBadUserInput"]
    ELSE [obj |-> o, outcome |-> "AttributeError"]

\* the field_func setter: [obj, outcome]
field_func_setter(o, val) ==
    IF o.editable
    THEN IF ValidFunc(val)
         THEN [obj |-> [o EXCEPT !.field_func = val, !.validated = @ + 1],
               outcome |-> "ok"]
         ELSE [obj |-> [o EXCEPT !.validated = @ + 1],
               outcome |-> "MagpylibBadUserInput"]
    ELSE [obj |-> o, outcome |-> "AttributeError"]

\* src.field_func = val
SetFieldFunc(t, val) ==
    /\ tr.n < tr.limit
    /\ LET r == field_func_setter(objs[t], val)
       IN  /\ objs' = [objs EXCEPT ![t] = r.obj]
           /\ tr' = [n |-> tr.n + 1, limit |-> tr.limit, op |-> "field_func",
                     target |-> t, val |-> val, outcome |-> r.outcome,
                     pre |-> objs]
    /\ UNCHANGED <<pc, fr>>

\* BaseSource.__init__: the setter runs only for a field_func that is not
\* None; when it raises no object is made and the name keeps the old one
BaseSource_init(t, val) ==
    /\ tr.n < tr.limit
    /\ LET r == IF val = "None"
                THEN [obj |-> FreshSource(t), outcome |-> "ok"]
                ELSE field_func_setter(FreshSource(t), val)
       IN  /\ objs' = IF r.outcome = "ok" THEN [objs EXCEPT ![t] = r.obj]
                      ELSE objs
           /\ tr' = [n |-> tr.n + 1, limit |-> tr.limit, op |-> "__init__",
                     target |-> t, val |-> val, outcome |-> r.outcome,
                     pre |-> objs]
    /\ UNCHANGED <<pc, fr>>

\* src.getB(observers) and src.getH(observers): the stored function is
\* handed to getBH_level2 as it is
GetBH(t, field) ==
    /\ tr.n < tr.limit
    /\ objs' = [objs EXCEPT ![t].calls = @ + 1]
    /\ tr' = [n |-> tr.n + 1, limit |-> tr.limit, op |-> "get" \o field,
              target |-> t, val |-> objs[t].field_func, outcome |-> "ok",
              pre |-> objs]
    /\ UNCHANGED <<pc, fr>>

InitF ==
    /\ objs = [o \in FSources |-> FreshSource(o)]
    /\ tr = [n |-> 0, limit |-> MaxOps + 2, op |-> "none", pre |-> objs,
             outcome |-> "ok"]
    /\ pc = "idle"
    /\ fr = NoFrame(objs)

NextF ==
    \/ \E t \in FSources, val \in FuncInputs : SetFieldFunc(t, val)
    \/ \E t \in FSources, val \in FuncInputs \cup {"None"} :
          BaseSource_init(t, val)
    \/ \E t \in FSources, field \in {"B", "H"} : GetBH(t, field)

SpecF == InitF /\ [][NextF]_vars

\* ------------------------------------------------- getBH_level2: the input
\* Sensor.pos_pix of the sensors
Pix(o) ==
    CASE o = "s1" -> PixOf(<<3>>, <<<<0, 0, 0>>>>)
      [] o = "s2" -> PixOf(<<2, 3>>, <<<<0, 0, 0>>, <<1, 0, 0>>>>)
      [] OTHER -> PixOf(<<3>>, <<Zero3>>)

\* bare observer positions: one position (3,) and an array of shape (2,3)
PosPix(item) ==
    IF item = "pos1" THEN PixOf(<<3>>, <<<<0, 0, 1>>>>)
    ELSE PixOf(<<2, 3>>, <<<<0, 0, 1>>, <<0, 1, 0>>>>)

\* np.array of a list of equal position arrays: one more leading axis
StackPix(items) ==
    LET one == PosPix(items[1])
    IN  PixOf(<<Len(items)>> \o one.shape,
              [i \in 1..(Len(items) * Len(one.flat)) |->
                  one.flat[((i - 1) % Len(one.flat)) + 1]])

\* the magnetisation-like parameter of a source
Mag(o) ==
    CASE o = "b1" -> <<10, 0, 0>>
      [] o = "sp" -> <<0, 100, 0>>
      [] o = "b2" -> <<0, 0, 1000>>
      [] OTHER -> Zero3

LIBRARY_SOURCES ==
    {"Box", "Cylinder", "CylinderSegment", "Sphere", "Dipole", "Circular",
     "Line", "CustomSource"}
LIBRARY_SENSORS == {"Sensor"}

\* objects without an _object_type attribute
HasObjectType(o) == Kind(o) # "Foreign"

\* utility.filter_objects with allow = 'sensors+sources'
filter_objects(obj_list) ==
    SelectSeq(obj_list,
              LAMBDA o : Kind(o) \in LIBRARY_SOURCES \cup LIBRARY_SENSORS)

\* utility.format_obj_input on a flat sequence of objects and collections:
\* [ok, list]; ok is FALSE when "Unknown input object type." is raised
RECURSIVE FormatLoop(_)
FormatLoop(objects) ==
    IF objects = <<>> THEN [ok |-> TRUE, list |-> <<>>]
    ELSE LET obj  == Head(objects)
             rest == FormatLoop(Tail(objects))
             here == IF Kind(obj) = "Collection" THEN Children(obj)
                     ELSE IF Kind(obj) \in LIBRARY_SOURCES \cup LIBRARY_SENSORS
                          THEN <<obj>>
                          ELSE <<>>
         IN  IF ~HasObjectType(obj) THEN [ok |-> FALSE, list |-> <<>>]
             ELSE [ok |-> rest.ok, list |-> here \o rest.list]

format_obj_input(objects) ==
    LET r == FormatLoop(objects)
    IN  [ok |-> r.ok, list |-> filter_objects(r.list)]

\* ------------------------------------------- flattening of nested inputs
\* an input item: an object, or a list / tuple of items
Leaf(id) == [tag |-> "obj", id |-> id, items |-> <<>>]
ListOf(items) == [tag |-> "list", id |-> "", items |-> items]

\* utility.format_obj_input, the loop over an input that may hold lists:
\* a list is flattened by the recursive call, which filters its result
RECURSIVE FormatItems(_)
FormatItems(objects) ==
    IF objects = <<>> THEN [ok |-> TRUE, list |-> <<>>]
    ELSE LET obj  == Head(objects)
             here == IF obj.tag = "list"
                     THEN LET r == FormatItems(obj.items)
                          IN  [ok |-> r.ok, list |-> filter_objects(r.list)]
                     ELSE FormatLoop(<<obj.id>>)
             rest == FormatItems(Tail(objects))
         IN  [ok |-> here.ok /\ rest.ok, list |-> here.list \o rest.list]

format_obj_input_nested(objects) ==
    LET r == FormatItems(objects)
    IN  [ok |-> r.ok, list |-> filter_objects(r.list)]

\* magpylib3 format_src_input: [ok, list]; ok is FALSE for sys.exit
RECURSIVE format_src_input(_)
format_src_input(sources) ==
    IF sources = <<>> THEN [ok |-> TRUE, list |-> <<>>]
    ELSE LET src  == Head(sources)
             here == IF src.tag = "list" THEN format_src_input(src.items)
                     ELSE IF Kind(src.id) = "Collection"
                          THEN [ok |-> TRUE, list |-> Children(src.id)]
                     ELSE IF Kind(src.id) \in {"Box", "Cylinder"}
                          THEN [ok |-> TRUE, list |-> <<src.id>>]
                          ELSE [ok |-> FALSE, list |-> <<>>]
             rest == format_src_input(Tail(sources))
         IN  [ok |-> here.ok /\ rest.ok, list |-> here.list \o rest.list]

\* a call of one of the two flattening functions
FlattenCall(op, inp, r) ==
    /\ tr.n < tr.limit
    /\ tr' = [n |-> tr.n + 1, limit |-> tr.limit, op |-> op, input |-> inp,
              outcome |-> IF r.ok THEN "ok"
                          ELSE IF op = "format_src_input" THEN "SystemExit"
                          ELSE "MagpylibBadUserInput",
              result |-> r.list, pre |-> objs]
    /\ UNCHANGED <<objs, pc, fr>>

Format_obj_input(inp) ==
    FlattenCall("format_obj_input", inp, format_obj_input_nested(inp))

Format_src_input(inp) ==
    FlattenCall("format_src_input", inp, format_src_input(inp))

\* the items of the inputs: sources, a sensor, a collection, a collection
\* holding a collection, a list and a list holding a list
TreeItems ==
    {Leaf("b1"), Leaf("b2"), Leaf("s1"), Leaf("c1"), Leaf("c2"),
     ListOf(<<Leaf("c1"), Leaf("b2")>>),
     ListOf(<<ListOf(<<Leaf("b2"), Leaf("c1")>>), Leaf("b1")>>)}

TreeInputs ==
    UNION {[1..n -> TreeItems] : n \in 1..(MaxIn - 1)}

InitX ==
    /\ objs = [o \in Ids |-> StaticPath(Zero3, UnitRot)]
    /\ tr = [n |-> 0, limit |-> MaxOps + 1, op |-> "none", pre |-> objs,
             outcome |-> "ok"]
    /\ pc = "idle"
    /\ fr = NoFrame(objs)

\* utility.check_duplicates of magpylib._src: the loop keeps an object the
\* first time it is met
RECURSIVE check_duplicates(_)
check_duplicates(obj_list) ==
    IF obj_list = <<>> THEN <<>>
    ELSE LET front == check_duplicates(SubSeq(obj_list, 1, Len(obj_list) - 1))
             src   == obj_list[Len(obj_list)]
         IN  IF src \in Range(front) THEN front ELSE Append(front, src)

\* the lists list(set(src_list)) can be: a set of objects is iterated in the
\* order of their hashes, which are their addresses
ListsOfSet(S) == {l \in [1..Cardinality(S) -> S] : Range(l) = S}

\* magpylib3 check_duplicates: the results it can return
check_duplicates3(src_list) ==
    LET src_set == Range(src_list)
    IN  IF Cardinality(src_set) # Len(src_list) THEN ListsOfSet(src_set)
        ELSE {src_list}

\* a call of one of the two check_duplicates
DuplicatesCall(op, inp, result) ==
    /\ tr.n < tr.limit
    /\ tr' = [n |-> tr.n + 1, limit |-> tr.limit, op |-> op, input |-> inp,
              outcome |-> "ok", result |-> result, pre |-> objs]
    /\ UNCHANGED <<objs, pc, fr>>

Check_duplicates(inp) ==
    DuplicatesCall("check_duplicates", inp, check_duplicates(inp))

Check_duplicates3(inp) ==
    \E result \in check_duplicates3(inp) :
        DuplicatesCall("check_duplicates3", inp, result)

\* lists of sources, with and without repetitions
DupInputs == UNION {[1..n -> Sources] : n \in 0..MaxIn}

NextX ==
    \/ \E inp \in TreeInputs : Format_obj_input(inp)
    \/ \E inp \in TreeInputs : Format_src_input(inp)
    \/ \E inp \in DupInputs : Check_duplicates(inp)
    \/ \E inp \in DupInputs : Check_duplicates3(inp)

SpecX == InitX /\ [][NextX]_vars

\* ------------------------------------------------ magnet_tetrahedron_field
\* The caller's arrays are objs["vertices"] (n tetrahedra of four points),
\* objs["observers"] (n points) and objs["polarization"] (n vectors);
\* instance i of a call pairs entry i of each.
Cross(a, b) ==
    <<a[2] * b[3] - a[3] * b[2], a[3] * b[1] - a[1] * b[3],
      a[1] * b[2] - a[2] * b[1]>>
Dot(a, b) == a[1] * b[1] + a[2] * b[2] + a[3] * b[3]

\* np.linalg.det of the matrix with the columns a, b, c
Det3(a, b, c) == Dot(a, Cross(b, c))

\* the determinant check_chirality computes for one tetrahedron
TetraDet(t) == Det3(Vsub(t[2], t[1]), Vsub(t[3], t[1]), Vsub(t[4], t[1]))

\* the assignment made through a view of the array instead of a copy:
\* both rows end as the old last vertex
check_chirality_view(points) ==
    [m \in DOMAIN points |->
        IF TetraDet(points[m]) < 0
        THEN <<points[m][1], points[m][2], points[m][4], points[m][4]>>
        ELSE points[m]]

\* check_chirality: the content of the array points after the call (the
\* array itself is returned)
check_chirality(points) ==
    [m \in DOMAIN points |->
        IF TetraDet(points[m]) < 0
        THEN <<points[m][1], points[m][2], points[m][4], points[m][3]>>
        ELSE points[m]]

\* np.linalg.inv raises for a singular matrix
Singular(vertices) == \E m \in DOMAIN vertices : TetraDet(vertices[m]) = 0

\* the inside test made without the bound on the sum of the coordinates
point_inside_box(points, vertices) ==
    [i \in DOMAIN points |->
        LET t  == vertices[i]
            e1 == Vsub(t[2], t[1])
            e2 == Vsub(t[3], t[1])
            e3 == Vsub(t[4], t[1])
            d  == Vsub(points[i], t[1])
            dt == Det3(e1, e2, e3)
            sg == IF dt < 0 THEN -1 ELSE 1
            n1 == sg * Det3(d, e2, e3)
            n2 == sg * Det3(e1, d, e3)
            n3 == sg * Det3(e1, e2, d)
            ad == sg * dt
        IN  /\ n1 >= 0 /\ n2 >= 0 /\ n3 >= 0
            /\ n1 <= ad /\ n2 <= ad /\ n3 <= ad]

\* point_inside: newp = inv(mat) (p - v0) by Cramer's rule, entry k being
\* nk / dt; inside when all entries are in [0, 1] and their sum is <= 1
point_inside(points, vertices) ==
    [i \in DOMAIN points |->
        LET t  == vertices[i]
            e1 == Vsub(t[2], t[1])
            e2 == Vsub(t[3], t[1])
            e3 == Vsub(t[4], t[1])
            d  == Vsub(points[i], t[1])
            dt == Det3(e1, e2, e3)
            sg == IF dt < 0 THEN -1 ELSE 1
            n1 == sg * Det3(d, e2, e3)
            n2 == sg * Det3(e1, d, e3)
            n3 == sg * Det3(e1, e2, d)
            ad == sg * dt
        IN  /\ n1 >= 0 /\ n2 >= 0 /\ n3 >= 0
            /\ n1 <= ad /\ n2 <= ad /\ n3 <= ad
            /\ n1 + n2 + n3 <= ad]

\* the vertex orders of the four triangles with the first one not turned
TriOrdersUnturned == <<<<1, 2, 3>>, <<1, 2, 4>>, <<2, 3, 4>>, <<1, 4, 3>>>>

\* the vertex orders (0,2,1), (0,1,3), (1,2,3), (0,3,2), counted from 1
TriOrders == <<<<1, 3, 2>>, <<1, 2, 4>>, <<2, 3, 4>>, <<1, 4, 3>>>>

\* np.concatenate of the four selections: 4n triangles, the k-th
\* selection of tetrahedron i at index (k-1) n + i
tri_vertices(vertices) ==
    LET n == Len(vertices)
    IN  [j \in 1..(4 * n) |->
            LET k == ((j - 1) \div n) + 1
                i == ((j - 1) % n) + 1
            IN  [c \in 1..3 |-> vertices[i][TriOrders[k][c]]]]

\* triangle_field of one observer, triangle and polarization: the field
\* is kept as the arguments it is a function of
triangle_field(field, observer, triangle, polarization) ==
    [field |-> field, observer |-> observer, triangle |-> triangle,
     polarization |-> polarization]

\* the returned array: entry i is the sum of the four triangle fields of
\* instance i and the polarization added to it
tetra_field(field, observers, tris, polarization, mask_inside) ==
    LET n == Len(observers)
    IN  [i \in 1..n |->
            [faces |-> [k \in 1..4 |->
                          triangle_field(field, observers[i],
                                         tris[(k - 1) * n + i],
                                         polarization[i])],
             added |-> IF field = "B" /\ mask_inside[i]
                       THEN polarization[i] ELSE Zero3]]

\* magnet_tetrahedron_field(field, observers, vertices, polarization,
\* in_out): the vertices array after the call, the outcome, the mask, the
\* triangles handed to triangle_field and the result
magnet_tetrahedron_field(field, observers, vertices, polarization, in_out) ==
    LET verts == check_chirality(vertices)
        n     == Len(observers)
        auto  == in_out = "auto" /\ field # "H"
        mask  == IF auto THEN point_inside(observers, verts)
                 ELSE [i \in 1..n |-> in_out = "inside"]
        tris  == tri_vertices(verts)
    IN  IF auto /\ Singular(verts)
        THEN [vertices |-> verts, outcome |-> "LinAlgError",
              mask |-> <<>>, tri |-> <<>>, result |-> <<>>]
        ELSE [vertices |-> verts, outcome |-> "ok", mask |-> mask,
              tri |-> tris,
              result |-> tetra_field(field, observers, tris, polarization,
                                     mask)]

\* a call on the caller's arrays
Magnet_tetrahedron_field(field, in_out) ==
    /\ tr.n < tr.limit
    /\ LET r == magnet_tetrahedron_field(field, objs["observers"],
                                         objs["vertices"],
                                         objs["polarization"], in_out)
       IN  /\ objs' = [objs EXCEPT !["vertices"] = r.vertices]
           /\ tr' = [n |-> tr.n + 1, limit |-> tr.limit,
                     op |-> "magnet_tetrahedron_field", field |-> field,
                     in_out |-> in_out, outcome |-> r.outcome,
                     mask |-> r.mask, tri |-> r.tri, result |-> r.result,
                     pre |-> objs]
    /\ UNCHANGED <<pc, fr>>

\* check_chirality called on the caller's vertices
Check_chirality ==
    /\ tr.n < tr.limit
    /\ objs' = [objs EXCEPT !["vertices"] = check_chirality(@)]
    /\ tr' = [n |-> tr.n + 1, limit |-> tr.limit, op |-> "check_chirality",
              outcome |-> "ok", result |-> check_chirality(objs["vertices"]),
              pre |-> objs]
    /\ UNCHANGED <<pc, fr>>

\* tetrahedra: right-handed, the same left-handed, the tetrahedron of the
\* docstring and its left-handed order, a flat one
Tetrahedra ==
    {<<Zero3, <<4, 0, 0>>, <<0, 4, 0>>, <<0, 0, 4>>>>,
     <<Zero3, <<4, 0, 0>>, <<0, 0, 4>>, <<0, 4, 0>>>>,
     <<<<-1, 0, 0>>, <<1, -1, 0>>, <<1, 1, 0>>, <<0, 0, 1>>>>,
     <<<<-1, 0, 0>>, <<1, -1, 0>>, <<0, 0, 1>>, <<1, 1, 0>>>>,
     <<Zero3, <<4, 0, 0>>, <<0, 4, 0>>, <<4, 4, 0>>>>}

\* observers: inside, on a vertex, an edge and a face, outside with all
\* coordinates within [0,1], outside beyond a coordinate
TetraObservers ==
    {<<1, 1, 1>>, Zero3, <<2, 2, 0>>, <<2, 1, 1>>, <<2, 2, 1>>,
     <<5, 0, 0>>, <<-1, 1, 1>>, <<0, 0, 1>>}

InitH ==
    /\ \E v1 \in Tetrahedra, v2 \in Tetrahedra,
          o1 \in TetraObservers, o2 \in TetraObservers :
         objs = [a \in {"vertices", "observers", "polarization"} |->
                    CASE a = "vertices" -> <<v1, v2>>
                      [] a = "observers" -> <<o1, o2>>
                      [] OTHER -> <<<<1, 2, 3>>, <<0, 0, 5>>>>]
    /\ tr = [n |-> 0, limit |-> MaxOps + 1, op |-> "none", pre |-> objs,
             outcome |-> "ok"]
    /\ pc = "idle"
    /\ fr = NoFrame([o \in Ids |-> StaticPath(Zero3, UnitRot)])

NextH ==
    \/ \E field \in {"B", "H"}, in_out \in {"auto", "inside", "outside"} :
          Magnet_tetrahedron_field(field, in_out)
    \/ Check_chirality

SpecH == InitH /\ [][NextH]_vars

\* -------------------------------------------------------------- Bfield_Box
\* Lengths are whole multiples of the shift 1e-6, the unit of this section;
\* the caller's arguments are objs["MAG"], objs["pos"] and objs["dim"].
Eps == 1

Abs(x) == IF x < 0 THEN -x ELSE x

\* sum([x==a, x==-a, y==b, y==-b, z==c, z==-c])
onBorder(x, y, z, a, b, c) ==
    LET one(t) == IF t THEN 1 ELSE 0
    IN  one(x = a) + one(x = -a) + one(y = b) + one(y = -b)
          + one(z = c) + one(z = -c)

\* the shift made for an observer on any border
ShiftedOnAnyBorder(pos, half) ==
    IF onBorder(pos[1], pos[2], pos[3], half[1], half[2], half[3]) > 0
    THEN <<pos[1] + Eps, pos[2] + Eps, pos[3] + Eps>>
    ELSE pos

\* the observer the field is evaluated at: shifted when onBorder > 1
Shifted(pos, half) ==
    IF onBorder(pos[1], pos[2], pos[3], half[1], half[2], half[3]) > 1
    THEN <<pos[1] + Eps, pos[2] + Eps, pos[3] + Eps>>
    ELSE pos

\* x, y, z = -z, y, x and a, b, c = c, b, a
PermuteX(v) == [p |-> <<-v.p[3], v.p[2], v.p[1]>>,
                h |-> <<v.h[3], v.h[2], v.h[1]>>]

\* x, y, z = x, -z, y and a, b, c = a, c, b
PermuteY(v) == [p |-> <<v.p[1], -v.p[3], v.p[2]>>,
                h |-> <<v.h[1], v.h[3], v.h[2]>>]

\* the inside test with the surface counted as inside
InsideOrOn(v) ==
    Abs(v.p[1]) <= v.h[1] /\ Abs(v.p[2]) <= v.h[2] /\ Abs(v.p[3]) <= v.h[3]

\* abs(x) < a, abs(y) < b, abs(z) < c on the values of x, y, z, a, b, c
Inside(v) ==
    Abs(v.p[1]) < v.h[1] /\ Abs(v.p[2]) < v.h[2] /\ Abs(v.p[3]) < v.h[3]

\* Bfield_Box(MAG, pos, dim): the observer the three magnetization parts
\* are evaluated at, the values of x, y, z and a, b, c at the inside test,
\* and the magnetization added to the field
Bfield_Box(MAG, pos, dim) ==
    LET half == <<dim[1] \div 2, dim[2] \div 2, dim[3] \div 2>>
        at   == Shifted(pos, half)
        last == PermuteY(PermuteX([p |-> at, h |-> half]))
    IN  [at |-> at, half |-> half, last |-> last,
         added |-> IF Inside(last) THEN MAG ELSE Zero3]

\* a call on the caller's arguments
Bfield_Box_Call ==
    /\ tr.n < tr.limit
    /\ tr' = [n |-> tr.n + 1, limit |-> tr.limit, op |-> "Bfield_Box",
              outcome |-> "ok",
              result |-> Bfield_Box(objs["MAG"], objs["pos"], objs["dim"]),
              pre |-> objs]
    /\ UNCHANGED <<objs, pc, fr>>

\* full dimensions (even, so that dim/2 is whole) and observer coordinates
\* on, next to and off the planes of the faces
BoxDims == {<<4, 6, 8>>, <<4, 4, 4>>}
BoxCoords == {-5, -4, -3, -2, -1, 0, 2, 3, 4}

InitB ==
    /\ \E dim \in BoxDims, x \in BoxCoords, y \in BoxCoords, z \in BoxCoords :
         objs = [a \in {"MAG", "pos", "dim"} |->
                    CASE a = "MAG" -> <<10, 20, 30>>
                      [] a = "pos" -> <<x, y, z>>
                      [] OTHER -> dim]
    /\ tr = [n |-> 0, limit |-> MaxOps, op |-> "none", pre |-> objs,
             outcome |-> "ok"]
    /\ pc = "idle"
    /\ fr = NoFrame([o \in Ids |-> StaticPath(Zero3, UnitRot)])

NextB == Bfield_Box_Call

SpecB == InitB /\ [][NextB]_vars

\* all_same comparing a slice with itself
all_same_typo(lst) ==
    SubSeq(lst, 2, Len(lst)) = SubSeq(lst, 2, Len(lst))

\* utility.all_same: lst[1:] == lst[:-1]
all_same(lst) ==
    SubSeq(lst, 2, Len(lst)) = SubSeq(lst, 1, Len(lst) - 1)

\* get_good_path_length: 0 for a bad path format (position and orientation
\* of different length), -1 when a length is neither 1 nor the maximum,
\* else the maximum length m
RECURSIVE MaxLen(_, _)
MaxLen(os, obj_list) ==
    IF obj_list = <<>> THEN 1
    ELSE MaxOf(Len(os[Head(obj_list)].pos), MaxLen(os, Tail(obj_list)))

get_good_path_length(os, obj_list) ==
    LET m == MaxLen(os, obj_list)
    IN  IF \E i \in DOMAIN obj_list :
               Len(os[obj_list[i]].pos) # Len(os[obj_list[i]].rot)
        THEN 0
        ELSE IF \A i \in DOMAIN obj_list :
                   Len(os[obj_list[i]].pos) \in {1, m}
             THEN m
             ELSE -1

\* a tiling that leaves the path as it is
TileNone(path, m) == path

\* np.tile(path, (m, 1)) of a path
Tile(path, m) == [j \in 1..(m * Len(path)) |-> path[((j - 1) % Len(path)) + 1]]

\* the tiling test of a mutant that also tiles full-length paths
tile_any_length(n) == n >= 1

\* line 208: the paths that are tiled
NeedsTile(n) == n = 1

\* lines 207-212: the loop over obj_list; [objs, reset]
RECURSIVE TileLoop(_, _, _, _)
TileLoop(os, reset, obj_list, m) ==
    IF obj_list = <<>> THEN [objs |-> os, reset |-> reset]
    ELSE LET obj == Head(obj_list)
         IN  IF NeedsTile(Len(os[obj].pos))
             THEN TileLoop(
                    [os EXCEPT ![obj] = [pos |-> Tile(@.pos, m),
                                         rot |-> Tile(@.rot, m)]],
                    reset \o <<obj>>, Tail(obj_list), m)
             ELSE TileLoop(os, reset, Tail(obj_list), m)

\* a reset of the position path only
RECURSIVE ResetPosOnly(_, _)
ResetPosOnly(os, reset) ==
    IF reset = <<>> THEN os
    ELSE ResetPosOnly(
            [os EXCEPT ![Head(reset)] = [pos |-> <<@.pos[1]>>,
                                         rot |-> @.rot]],
            Tail(reset))

\* lines 300-302: obj.pos = obj.pos[0]; obj.rot = obj.rot[0]
RECURSIVE ResetLoop(_, _)
ResetLoop(os, reset) ==
    IF reset = <<>> THEN os
    ELSE ResetLoop(
            [os EXCEPT ![Head(reset)] = [pos |-> <<@.pos[1]>>,
                                         rot |-> <<@.rot[1]>>]],
            Tail(reset))

\* -------------------------------------------- getBH_level2: the evaluation
\* the pixels of a sensor of the call
SensPix(tpix, sens) == IF sens \in TmpSensors THEN tpix[sens] ELSE Pix(sens)

\* product of the entries of a shape
RECURSIVE Prod(_)
Prod(shape) == IF shape = <<>> THEN 1 ELSE Head(shape) * Prod(Tail(shape))

\* lines 217-220: the observer positions of path step j, all sensors
\* concatenated: r.apply(pos_pix) + p for the step's (r, p) of each sensor
RECURSIVE PosoRow(_, _, _, _)
PosoRow(os, tpix, sensors, j) ==
    IF sensors = <<>> THEN <<>>
    ELSE LET sens == Head(sensors)
             flat == SensPix(tpix, sens).flat
         IN  [q \in 1..Len(flat) |->
                 Vadd(Apply(os[sens].rot[j], flat[q]), os[sens].pos[j])]
             \o PosoRow(os, tpix, Tail(sensors), j)

\* lines 217-220: poso, one row per path step
Poso(os, tpix, sensors, m) ==
    [j \in 1..m |-> PosoRow(os, tpix, sensors, j)]

\* getBH_level1 for one source at one path step and one observer position
Field(src, p, r, po) == Vadd(Apply(r, Mag(src)), Vsub(po, p))

\* the field of one source over the path and the observer positions
FieldArr(os, src, poso) ==
    [j \in 1..Len(poso) |-> [q \in 1..Len(poso[j]) |->
        Field(src, os[src].pos[j], os[src].rot[j], poso[j][q])]]

\* lines 228-244: the group of a source, 0 for an unrecognized one
GroupOf(src) ==
    CASE Kind(src) = "Box" -> 1
      [] Kind(src) = "Cylinder" -> 2
      [] Kind(src) = "Sphere" -> 3
      [] Kind(src) = "Dipole" -> 4
      [] Kind(src) = "Circular" -> 5
      [] OTHER -> 0

\* order[g]: the indices of src_list that fall into group g, ascending
RECURSIVE Order(_, _, _)
Order(src_list, g, i) ==
    IF i > Len(src_list) THEN <<>>
    ELSE (IF GroupOf(src_list[i]) = g THEN <<i>> ELSE <<>>)
         \o Order(src_list, g, i + 1)

\* a scatter that ignores order[]: group results go to the slots 1, 2, ...
\* in group order
ScatterUnordered(os, src_list, poso) ==
    LET all == Order(src_list, 1, 1) \o Order(src_list, 2, 1)
               \o Order(src_list, 3, 1) \o Order(src_list, 4, 1)
               \o Order(src_list, 5, 1)
    IN  [i \in 1..Len(src_list) |-> FieldArr(os, src_list[all[i]], poso)]

\* lines 247-255: B[order[g][n]] = B_group[n] for every group g
Scatter(os, src_list, poso) ==
    [i \in 1..Len(src_list) |->
        LET g     == GroupOf(src_list[i])
            order == Order(src_list, g, 1)
            n     == CHOOSE n \in DOMAIN order : order[n] = i
        IN  FieldArr(os, src_list[order[n]], poso)]

ZeroArr(m, n_pix) == [j \in 1..m |-> [q \in 1..n_pix |-> Zero3]]

AddArr(a, b) ==
    [j \in DOMAIN a |-> [q \in DOMAIN a[j] |-> Vadd(a[j][q], b[j][q])]]

\* np.sum(B[...], axis=0) of a sequence of arrays
RECURSIVE SumArr(_, _, _)
SumArr(Bs, m, n_pix) ==
    IF Bs = <<>> THEN ZeroArr(m, n_pix)
    ELSE AddArr(Head(Bs), SumArr(Tail(Bs), m, n_pix))

\* B[a:b] with Python indices (clamped to the length)
PySlice(B, a, b) == SubSeq(B, MinOf(a, Len(B)) + 1, MinOf(b, Len(B)))

\* np.delete(B, np.s_[a:b], 0)
PyDelete(B, a, b) ==
    IF b <= a THEN B
    ELSE PySlice(B, 0, a) \o PySlice(B, b, Len(B))

\* lines 260-264: the loop over the top-level sources, i a Python index;
\* ok is FALSE when B[i] = ... raises IndexError
RECURSIVE CollapseLoop(_, _, _, _, _)
CollapseLoop(B, sources, i, m, n_pix) ==
    IF i >= Len(sources) THEN [ok |-> TRUE, B |-> B]
    ELSE IF Kind(sources[i + 1]) # "Collection"
         THEN CollapseLoop(B, sources, i + 1, m, n_pix)
         ELSE LET col_len == Len(Children(sources[i + 1]))
                  summed  == SumArr(PySlice(B, i, i + col_len), m, n_pix)
              IN  IF i >= Len(B) THEN [ok |-> FALSE, B |-> B]
                  ELSE CollapseLoop(
                          PyDelete([B EXCEPT ![i + 1] = summed],
                                   i + 1, i + col_len),
                          sources, i + 1, m, n_pix)

\* lines 259-264
Collapse(B, sources, l, l0, m, n_pix) ==
    IF l > l0 THEN CollapseLoop(B, sources, 0, m, n_pix)
    ELSE [ok |-> TRUE, B |-> B]

\* lines 179, 182-191: the rotation tests made before tiling
Unrotated(o) == \A j \in DOMAIN o.rot : o.rot[j] = UnitRot
StaticRot(o) ==
    IF Len(o.pos) = 1 THEN TRUE
    ELSE \A j \in DOMAIN o.rot : o.rot[j] = o.rot[1]

\* the rotation applied with the sensor orientation itself
RotateBackNoInv(B, i, k_pixel, rot, static) ==
    [e \in DOMAIN B |-> [j \in DOMAIN B[e] |-> [q \in DOMAIN B[e][j] |->
        IF q > (i - 1) * k_pixel /\ q <= i * k_pixel
        THEN Apply(IF static THEN rot[1] ELSE rot[j], B[e][j][q])
        ELSE B[e][j][q]]]]

\* lines 269-285: rotate the pixels of sensor i of every source entry back
\* by the inverse sensor orientation
RotateBack(B, i, k_pixel, rot, static) ==
    [e \in DOMAIN B |-> [j \in DOMAIN B[e] |-> [q \in DOMAIN B[e][j] |->
        IF q > (i - 1) * k_pixel /\ q <= i * k_pixel
        THEN Apply(Inv(IF static THEN rot[1] ELSE rot[j]), B[e][j][q])
        ELSE B[e][j][q]]]]

\* ok is FALSE when np.reshape raises ValueError (len(B) is not l0)
RECURSIVE SensRotLoop(_, _, _, _, _, _, _)
SensRotLoop(B, os, sensors, i, k_pixel, flags, l0) ==
    IF i > Len(sensors) THEN [ok |-> TRUE, B |-> B]
    ELSE IF flags.unrot[i]
         THEN SensRotLoop(B, os, sensors, i + 1, k_pixel, flags, l0)
         ELSE IF Len(B) # l0 THEN [ok |-> FALSE, B |-> B]
              ELSE SensRotLoop(
                      RotateBack(B, i, k_pixel, os[sensors[i]].rot,
                                 flags.static[i]),
                      os, sensors, i + 1, k_pixel, flags, l0)

\* the result axes with path and sensor axis exchanged
FullShapeSwapped(l0, m, k, pix_shape) == <<l0, k, m>> \o pix_shape

\* lines 288-289: the axes of the full result
FullShape(l0, m, k, pix_shape) == <<l0, m, k>> \o pix_shape

\* np.squeeze of a shape
Squeeze(shape) == SelectSeq(shape, LAMBDA n : n # 1)

\* line 293: np.sum(B, axis=0) on the shape
SumAxis0(shape) == Tail(shape)

\* ----------------------------------------------- getBH_level2: the actions
Raise(error, stage) ==
    /\ pc' = "raised"
    /\ fr' = [fr EXCEPT !.err = error, !.stage = stage]
    /\ UNCHANGED <<objs, tr>>

\* the call: getBH_level2(bh, sources, observers, sumup, squeeze);
\* lines 147-148 wrap a single source into a list
GetBH_Call(sources, observers, sumup, squeeze) ==
    /\ pc = "idle"
    /\ pc' = "format"
    /\ fr' = [NoFrame(objs) EXCEPT !.sources = sources, !.obs = observers,
                                  !.sumup = sumup, !.squeeze = squeeze]
    /\ UNCHANGED <<objs, tr>>

\* lines 151-164: the sensors of the observers input; a bare position
\* becomes a new static Sensor in the next free slot
RECURSIVE ObsSensors(_, _)
ObsSensors(items, n) ==
    IF items = <<>> THEN <<>>
    ELSE IF Head(items) \in Sensors
         THEN <<Head(items)>> \o ObsSensors(Tail(items), n)
         ELSE <<IF n = 0 THEN "t1" ELSE "t2">>
              \o ObsSensors(Tail(items), n + 1)

RECURSIVE ObsPix(_, _, _)
ObsPix(items, n, tpix) ==
    IF items = <<>> THEN tpix
    ELSE IF Head(items) \in Sensors THEN ObsPix(Tail(items), n, tpix)
         ELSE ObsPix(Tail(items), n + 1,
                     [tpix EXCEPT ![IF n = 0 THEN "t1" ELSE "t2"] =
                         PosPix(Head(items))])

\* lines 146-164
GetBH_Format ==
    /\ pc = "format"
    /\ LET src == format_obj_input(fr.sources)
           o   == fr.obs
           mixed == o.tag = "list" /\ \E i \in DOMAIN o.items :
                                         o.items[i] \in Sensors
           sensors ==
               CASE o.tag = "Sensor" -> o.items
                 [] o.tag = "array" -> <<"t1">>
                 [] o.tag = "list" /\ mixed -> ObsSensors(o.items, 0)
                 [] o.tag = "list" /\ ~mixed -> <<"t1">>
                 [] OTHER -> <<>>
           tpix ==
               CASE o.tag = "array" ->
                        [fr.tpix EXCEPT !["t1"] = PosPix(o.items[1])]
                 [] o.tag = "list" /\ mixed -> ObsPix(o.items, 0, fr.tpix)
                 [] o.tag = "list" /\ ~mixed ->
                        [fr.tpix EXCEPT !["t1"] = StackPix(o.items)]
                 [] OTHER -> fr.tpix
       IN  IF ~src.ok
           THEN Raise("MagpylibBadUserInput", "format")
           ELSE /\ pc' = "sensorcheck"
                /\ fr' = [fr EXCEPT !.src_list = src.list,
                                    !.sensors = sensors, !.tpix = tpix]
                /\ objs' = [t \in Ids |->
                              IF t \in TmpSensors /\ t \in Range(sensors)
                              THEN StaticPath(Zero3, UnitRot) ELSE objs[t]]
                /\ UNCHANGED tr

\* lines 166-197
GetBH_SensorCheck ==
    /\ pc = "sensorcheck"
    /\ LET pix_shapes == [i \in DOMAIN fr.sensors |->
                             SensPix(fr.tpix, fr.sensors[i]).shape]
       IN  IF fr.obs.tag = "other"
           THEN Raise("UnboundLocalError", "sensorcheck")
           ELSE IF ~all_same(pix_shapes)
           THEN Raise("MagpylibBadUserInput", "sensorcheck")
           ELSE /\ pc' = "tile"
                /\ fr' = [fr EXCEPT
                     !.pix_shape = pix_shapes[1],
                     !.unrot = [i \in DOMAIN fr.sensors |->
                                   Unrotated(objs[fr.sensors[i]])],
                     !.static = [i \in DOMAIN fr.sensors |->
                                   StaticRot(objs[fr.sensors[i]])]]
                /\ UNCHANGED <<objs, tr>>

\* lines 199-212
GetBH_Tile ==
    /\ pc = "tile"
    /\ LET obj_list == fr.src_list \o fr.sensors
           m        == get_good_path_length(objs, obj_list)
           tiled    == TileLoop(objs, <<>>, obj_list, m)
       IN  IF m <= 0
           THEN Raise("MagpylibBadUserInput", "tile")
           ELSE /\ pc' = "group"
                /\ objs' = IF m > 1 THEN tiled.objs ELSE objs
                /\ fr' = [fr EXCEPT !.m = m,
                            !.reset = IF m > 1 THEN tiled.reset ELSE <<>>]
                /\ UNCHANGED tr

\* lines 214-244
GetBH_Group ==
    /\ pc = "group"
    /\ IF \E i \in DOMAIN fr.src_list : GroupOf(fr.src_list[i]) = 0
       THEN Raise("MagpylibBadUserInput", "group")
       ELSE /\ pc' = "eval"
            /\ fr' = [fr EXCEPT
                        !.poso = Poso(objs, fr.tpix, fr.sensors, fr.m)]
            /\ UNCHANGED <<objs, tr>>

\* lines 246-264
GetBH_Eval ==
    /\ pc = "eval"
    /\ LET n_pix == Len(fr.poso[1])
           B     == Scatter(objs, fr.src_list, fr.poso)
           c     == Collapse(B, fr.sources, Len(fr.src_list),
                             Len(fr.sources), fr.m, n_pix)
       IN  IF ~c.ok
           THEN Raise("IndexError", "eval")
           ELSE /\ pc' = "sensrot"
                /\ fr' = [fr EXCEPT !.B = c.B]
                /\ UNCHANGED <<objs, tr>>

\* lines 266-285
GetBH_SensRot ==
    /\ pc = "sensrot"
    /\ LET k_pixel == Prod(SubSeq(fr.pix_shape, 1, Len(fr.pix_shape) - 1))
           r == SensRotLoop(fr.B, objs, fr.sensors, 1, k_pixel,
                            [unrot |-> fr.unrot, static |-> fr.static],
                            Len(fr.sources))
       IN  IF ~r.ok
           THEN Raise("ValueError", "sensrot")
           ELSE /\ pc' = "shape"
                /\ fr' = [fr EXCEPT !.B = r.B]
                /\ UNCHANGED <<objs, tr>>

\* lines 287-297; after sumup B holds the one summed entry
GetBH_Shape ==
    /\ pc = "shape"
    /\ LET l0    == Len(fr.sources)
           n_pix == Len(fr.poso[1])
           full  == FullShape(l0, fr.m, Len(fr.sensors), fr.pix_shape)
           sh1   == IF fr.sumup THEN SumAxis0(full) ELSE full
           sh2   == IF fr.squeeze THEN Squeeze(sh1) ELSE sh1
       IN  IF Len(fr.B) # l0
           THEN Raise("ValueError", "shape")
           ELSE /\ pc' = "reset"
                /\ fr' = [fr EXCEPT
                            !.shape = sh2,
                            !.B = IF fr.sumup
                                  THEN <<SumArr(fr.B, fr.m, n_pix)>>
                                  ELSE fr.B]
                /\ UNCHANGED <<objs, tr>>

\* lines 299-304
GetBH_Reset ==
    /\ pc = "reset"
    /\ pc' = "done"
    /\ objs' = ResetLoop(objs, fr.reset)
    /\ fr' = [fr EXCEPT !.stage = "returned"]
    /\ UNCHANGED tr

\* ------------------------------------------- getBH_level2: the population
\* the path of a given length an object was given by earlier move calls
PathOf(base, step, n, rots) ==
    [pos |-> [j \in 1..n |-> <<base[1] + (j - 1) * step[1],
                               base[2] + (j - 1) * step[2],
                               base[3] + (j - 1) * step[3]>>],
     rot |-> [j \in 1..n |-> rots[((j - 1) % Len(rots)) + 1]]]

\* orientation paths of the sensor s1: unit, constant and changing
SensorRotModes == {<<UnitRot>>, <<Rz>>, <<Rz, Rx>>}

\* the sources inputs of the calls: every single item, and the pairs that
\* mix kinds, repeat an object and mix objects with collections
SourceItems == {"b1", "sp", "s1", "c1", "c3", "cE"}
SourceInputs ==
    {<<x>> : x \in SourceItems}
    \cup {<<"b1", "sp">>, <<"sp", "b1">>, <<"b1", "b1">>, <<"b1", "c1">>,
          <<"c1", "b1">>, <<"c1", "c3">>, <<"sp", "c3">>, <<"c3", "sp">>,
          <<"b1", "s1">>, <<"cE", "c1">>, <<"cE", "c3">>, <<"cE", "b1">>,
          <<"c1", "cE">>, <<"u1">>, <<"x1">>, <<"u1", "c1">>, <<"b1", "x1">>}

\* the observers inputs of the calls
ObsInputs ==
    {[tag |-> "Sensor", items |-> <<"s1">>],
     [tag |-> "array", items |-> <<"pos1">>],
     [tag |-> "list", items |-> <<"s1", "pos1">>],
     [tag |-> "list", items |-> <<"s1", "s1">>],
     [tag |-> "list", items |-> <<"s1", "s2">>],
     [tag |-> "list", items |-> <<"pos2", "s1">>],
     [tag |-> "list", items |-> <<"s2", "pos2">>],
     [tag |-> "list", items |-> <<"pos1", "pos1">>],
     [tag |-> "other", items |-> <<>>]}

Init ==
    /\ \E n1 \in 1..MaxM, n3 \in 1..MaxM, r3 \in SensorRotModes :
         objs = [o \in Ids |->
            CASE o = "b1" -> PathOf(<<1, 0, 0>>, <<1, 0, 0>>, n1, <<UnitRot>>)
              [] o = "sp" -> PathOf(<<0, 2, 0>>, Zero3, 1, <<Rx>>)
              [] o = "b2" -> PathOf(<<0, 0, 3>>, Zero3, 1, <<UnitRot>>)
              [] o = "s1" -> PathOf(<<0, 0, 5>>, <<0, 0, 1>>, n3, r3)
              [] o = "s2" -> PathOf(<<0, 0, 7>>, Zero3, 1, <<Rx>>)
              [] OTHER -> StaticPath(Zero3, UnitRot)]
    /\ tr = [n |-> 0, limit |-> MaxOps, op |-> "none", target |-> "b1", inp |-> <<>>,
             anchor |-> NoAnchor, start |-> StartAt(0), increment |-> FALSE,
             pre |-> objs]
    /\ pc = "idle"
    /\ fr = NoFrame(objs)

Next ==
    \/ \E src \in SourceInputs, obs \in ObsInputs,
          sumup \in BOOLEAN, squeeze \in BOOLEAN :
         GetBH_Call(src, obs, sumup, squeeze)
    \/ GetBH_Format
    \/ GetBH_SensorCheck
    \/ GetBH_Tile
    \/ GetBH_Group
    \/ GetBH_Eval
    \/ GetBH_SensRot
    \/ GetBH_Shape
    \/ GetBH_Reset

Spec == Init /\ [][Next]_vars

\* ------------------------------------------------- properties: move, rotate

\* the start index a call means: 'append' is the path length, a negative
\* start counts from the path end, and the result lies within [0, L]
NormIndex(start, L) ==
    LET raw == IF start.tag = "append" THEN L
               ELSE IF start.v < 0 THEN L + start.v ELSE start.v
    IN  MinOf(MaxOf(raw, 0), L)

\* entry i of a path padded with its last entry
OldAt(path, i) == IF i <= Len(path) THEN path[i] ELSE path[Len(path)]

RECURSIVE SumFirst(_, _)
SumFirst(inp, k) ==
    IF k = 0 THEN Zero3 ELSE Vadd(SumFirst(inp, k - 1), inp[k])

RECURSIVE ProdFirst(_, _)
ProdFirst(inp, k) ==
    IF k = 1 THEN inp[1] ELSE Mul(inp[k], ProdFirst(inp, k - 1))

\* entry k of the displacements a move call applies
EffDisp(k) == IF tr.increment THEN SumFirst(tr.inp, k) ELSE tr.inp[k]
\* entry k of the rotations a rotate call applies
EffRot(k) == IF tr.increment THEN ProdFirst(tr.inp, k) ELSE tr.inp[k]

\* C8: move with N displacements from the normalised start s on a path of
\* length L gives a path of length max(L, s+N); position i in [s, s+N) is
\* the old (edge-padded) entry plus displacement i-s, every other position
\* is unchanged, and the orientation path is the old one edge-padded.
C8_MoveEffect ==
    (tr.op = "move" /\ Kind(tr.target) # "Collection") =>
        LET old == tr.pre[tr.target]
            new == objs[tr.target]
            L   == Len(old.pos)
            N   == Len(tr.inp)
            s   == NormIndex(tr.start, L)
        IN  /\ Len(new.pos) = MaxOf(L, s + N)
            /\ Len(new.rot) = MaxOf(L, s + N)
            /\ \A i \in 1..Len(new.pos) :
                   new.pos[i] = IF i > s /\ i <= s + N
                                THEN Vadd(OldAt(old.pos, i), EffDisp(i - s))
                                ELSE old.pos[i]
            /\ \A i \in 1..Len(new.rot) : new.rot[i] = OldAt(old.rot, i)

\* a move that overwrites part of a path and extends it
C8_Witness ==
    /\ tr.op = "move" /\ tr.target = "b1"
    /\ Len(tr.pre["b1"].pos) = 3
    /\ tr.start = StartAt(-2)
    /\ Len(tr.inp) = 3
    /\ Len(objs["b1"].pos) = 4
    /\ objs["b1"].rot[4] = Mul(Rx, Rz)

\* C9: with increment=True move applies the cumulative sums of the input;
\* [(2,0,0)]*3 with the default start on a static object at the origin
\* gives the path [(2,0,0),(4,0,0),(6,0,0)].
C9_MoveIncrement ==
    (tr.op = "move" /\ tr.increment /\ Kind(tr.target) # "Collection") =>
        LET old == tr.pre[tr.target]
            new == objs[tr.target]
            s   == NormIndex(tr.start, Len(old.pos))
        IN  /\ \A k \in 1..Len(tr.inp) :
                   new.pos[s + k] =
                       Vadd(OldAt(old.pos, s + k), SumFirst(tr.inp, k))
            /\ ( /\ old.pos = <<Zero3>>
                  /\ tr.start = StartAt(-1)
                  /\ tr.inp = <<<<2, 0, 0>>, <<2, 0, 0>>, <<2, 0, 0>>>> )
                => new.pos = <<<<2, 0, 0>>, <<4, 0, 0>>, <<6, 0, 0>>>>

\* the scenario of the specification has been run
C9_Witness ==
    /\ tr.op = "move" /\ tr.increment
    /\ tr.pre["b1"].pos = <<Zero3>>
    /\ tr.start = StartAt(-1)
    /\ tr.inp = <<<<2, 0, 0>>, <<2, 0, 0>>, <<2, 0, 0>>>>
    /\ objs["b1"].pos[3] = <<6, 0, 0>>

\* C10: rotate with N rotations from the normalised start s sets, for i in
\* [s, s+N), the orientation to rot[i-s] * old[i] and, with an anchor, the
\* position to rot[i-s](old[i] - anchor) + anchor; without an anchor the
\* (edge-padded) positions are kept; entries outside [s, s+N) are unchanged.
C10_RotateEffect ==
    (tr.op = "rotate" /\ Kind(tr.target) # "Collection") =>
        LET old == tr.pre[tr.target]
            new == objs[tr.target]
            L   == Len(old.pos)
            N   == Len(tr.inp)
            s   == NormIndex(tr.start, L)
        IN  /\ Len(new.pos) = MaxOf(L, s + N)
            /\ Len(new.rot) = MaxOf(L, s + N)
            /\ \A i \in 1..Len(new.rot) :
                   new.rot[i] = IF i > s /\ i <= s + N
                                THEN Mul(EffRot(i - s), OldAt(old.rot, i))
                                ELSE old.rot[i]
            /\ \A i \in 1..Len(new.pos) :
                   new.pos[i] =
                       IF i > s /\ i <= s + N /\ tr.anchor.tag = "vec"
                       THEN Vadd(Apply(EffRot(i - s),
                                       Vsub(OldAt(old.pos, i), tr.anchor.v)),
                                 tr.anchor.v)
                       ELSE OldAt(old.pos, i)

\* an anchored rotation path that overwrites and extends a rotated path
C10_Witness ==
    /\ tr.op = "rotate" /\ tr.target = "b1"
    /\ tr.anchor = AnchorAt(<<1, 0, 0>>)
    /\ tr.inp = <<Rz, Rx>>
    /\ tr.pre["b1"].rot = <<Rx, Rz>>
    /\ tr.start = StartAt(-1)
    /\ Len(objs["b1"].pos) = 3
    /\ objs["b1"].rot[2] = Mul(Rz, Rz)
    /\ objs["b1"].rot[3] = Mul(Rx, Rz)

\* ---------------------------------------------- properties: getBH_level2
\* the sources a top-level item stands for
FlatItem(x) == IF Kind(x) = "Collection" THEN Children(x) ELSE <<x>>

RECURSIVE FlatSources(_)
FlatSources(sources) ==
    IF sources = <<>> THEN <<>>
    ELSE FlatItem(Head(sources)) \o FlatSources(Tail(sources))

\* the sensors an observers input stands for: their paths before the call
\* and their pixels
ClaimSensors(obs) ==
    LET bare(x) == [path |-> StaticPath(Zero3, UnitRot), pix |-> x]
        sens(x) == [path |-> fr.pre[x], pix |-> Pix(x)]
        one(x)  == IF x \in Sensors THEN sens(x) ELSE bare(PosPix(x))
    IN  CASE obs.tag = "Sensor" -> <<sens(obs.items[1])>>
          [] obs.tag = "array" -> <<bare(PosPix(obs.items[1]))>>
          [] obs.tag = "list" /\ (\E i \in DOMAIN obs.items :
                                     obs.items[i] \in Sensors) ->
                 [i \in DOMAIN obs.items |-> one(obs.items[i])]
          [] obs.tag = "list" -> <<bare(StackPix(obs.items))>>
          [] OTHER -> <<>>

\* the path lengths of the participating objects before the call
ClaimLengths ==
    {Len(fr.pre[o].pos) : o \in Range(FlatSources(fr.sources))}
    \cup {Len(ClaimSensors(fr.obs)[i].path.pos) :
            i \in DOMAIN ClaimSensors(fr.obs)}

\* M: the longest path of the call
ClaimM == CHOOSE n \in ClaimLengths \cup {1} :
              \A k \in ClaimLengths \cup {1} : k <= n

\* entry j of a path, a static path standing for all steps
PathAt(path, j) == IF Len(path) = 1 THEN path[1] ELSE path[j]

RECURSIVE SumField(_, _, _)
SumField(srcs, j, po) ==
    IF srcs = <<>> THEN Zero3
    ELSE Vadd(Field(Head(srcs), PathAt(fr.pre[Head(srcs)].pos, j),
                    PathAt(fr.pre[Head(srcs)].rot, j), po),
              SumField(Tail(srcs), j, po))

\* the field of top-level source i at path step j and pixel p of sensor k,
\* in the frame of that sensor
Expected(i, j, k, p) ==
    LET sn == ClaimSensors(fr.obs)[k]
        r  == PathAt(sn.path.rot, j)
        po == Vadd(Apply(r, sn.pix.flat[p]), PathAt(sn.path.pos, j))
    IN  Apply(Inv(r), SumField(FlatItem(fr.sources[i]), j, po))

Returned == pc = "done"

\* the objects a caller can hold
CallerObjects == Sources \cup Sensors

\* C1: after getBH_level2 returns normally every source and sensor has the
\* position path and the orientation path it had before the call.
C1_PathsRestored ==
    Returned => \A o \in CallerObjects : objs[o] = fr.pre[o]

\* a call has returned that tiled a static object it met twice
C1_Witness ==
    /\ Returned
    /\ fr.sources = <<"b1", "c1">>
    /\ fr.m = 3
    /\ fr.reset = <<"b1", "sp">>
    /\ Len(objs["b1"].pos) = 1
    /\ Len(fr.pre["s1"].pos) = 3

\* C2: when getBH_level2 raises after it has tiled length-1 paths, every
\* tiled object's path is back to its single entry when the error reaches
\* the caller.
C2_RestoredOnError ==
    (pc = "raised" /\ fr.reset # <<>>) =>
        \A o \in Range(fr.reset) : objs[o] = fr.pre[o]

\* C3: without empty collections and for inputs of library objects, entry i
\* of the source axis is the sum of
\* the fields of the sources flattened from top-level input i, whatever the
\* kinds and their order.
C3_SourceAxis ==
    (Returned /\ ~fr.sumup /\ "cE" \notin Range(fr.sources)
        /\ Range(fr.sources) \cap Strangers = {}) =>
        /\ Len(fr.B) = Len(fr.sources)
        /\ \A i \in DOMAIN fr.sources, j \in 1..ClaimM,
              k \in DOMAIN ClaimSensors(fr.obs) :
              \A p \in DOMAIN ClaimSensors(fr.obs)[k].pix.flat :
                 LET kp == Len(ClaimSensors(fr.obs)[1].pix.flat)
                 IN  fr.B[i][j][(k - 1) * kp + p] = Expected(i, j, k, p)

\* a sphere followed by a collection of box, sphere, box was evaluated on a
\* path, by two sensors
C3_Witness ==
    /\ Returned /\ ~fr.sumup
    /\ fr.sources = <<"sp", "c3">>
    /\ fr.obs.items = <<"s1", "pos1">>
    /\ fr.m = 3
    /\ Len(fr.B) = 2

\* the number of sensors of an observers input and their pixel shape
ClaimK == Len(ClaimSensors(fr.obs))
ClaimPixShape == ClaimSensors(fr.obs)[1].pix.shape
ClaimFull == <<Len(fr.sources), ClaimM, ClaimK>> \o ClaimPixShape

\* a shape without its axes of size 1
RECURSIVE DropOnes(_)
DropOnes(shape) ==
    IF shape = <<>> THEN <<>>
    ELSE (IF Head(shape) = 1 THEN <<>> ELSE <<Head(shape)>>)
         \o DropOnes(Tail(shape))

\* C4: with squeeze=False and sumup=False the result has the axes
\* (L0, M, K, N1, ..., 3); with squeeze=True exactly the axes of size 1 are
\* removed.
C4_ResultShape ==
    (Returned /\ ~fr.sumup) =>
        fr.shape = IF fr.squeeze THEN DropOnes(ClaimFull) ELSE ClaimFull

\* an unsqueezed result with all of L0, M, K and a pixel axis above 1
C4_Witness ==
    /\ Returned /\ ~fr.sumup /\ ~fr.squeeze
    /\ fr.shape = <<2, 3, 2, 2, 3>>
    /\ Len(fr.src_list) = 4

\* a squeezed result that lost axes of size 1
C4_WitnessSqueezed ==
    /\ Returned /\ ~fr.sumup /\ fr.squeeze
    /\ fr.shape = <<2, 3>>

\* C5: with squeeze=False and a single source, sumup=True gives the shape
\* that sumup=False gives.
C5_SumupKeepsShape ==
    (Returned /\ ~fr.squeeze /\ fr.sumup /\ Len(fr.sources) = 1) =>
        fr.shape = ClaimFull

\* the pixel shapes of the observers
ClaimShapes ==
    {ClaimSensors(fr.obs)[i].pix.shape : i \in DOMAIN ClaimSensors(fr.obs)}

PastSensorCheck == pc \notin {"idle", "format", "sensorcheck"}
PastTile == PastSensorCheck /\ pc # "tile"

\* C6: observers with unequal pixel shapes make the call raise
\* MagpylibBadUserInput before any path is tiled.
C6_MixedPixelShapes ==
    (PastSensorCheck /\ Cardinality(ClaimShapes) > 1) =>
        /\ pc = "raised"
        /\ fr.err = "MagpylibBadUserInput"
        /\ fr.stage \in {"format", "sensorcheck"}
        /\ fr.reset = <<>>
        /\ \A o \in Ids : objs[o] = fr.pre[o]

\* the call was rejected for its pixel shapes in a call that would have
\* tiled the static sensor s2
C6_Witness ==
    /\ pc = "raised"
    /\ fr.stage = "sensorcheck"
    /\ fr.obs.items = <<"s1", "s2">>
    /\ Len(fr.pre["s1"].pos) = 3
    /\ Len(objs["s2"].pos) = 1

C7_WitnessTiled ==
    /\ pc = "group"
    /\ fr.m = 3
    /\ fr.reset = <<"sp">>
    /\ fr.src_list = <<"b1", "sp">>

\* ---------------------------------------------- properties: Collections
\* new is old after the rotate call recorded in tr was applied to it about
\* the point A
RotatedAbout(new, old, A) ==
    LET L == Len(old.pos)
        N == Len(tr.inp)
        s == NormIndex(tr.start, L)
    IN  /\ Len(new.pos) = MaxOf(L, s + N)
        /\ Len(new.rot) = MaxOf(L, s + N)
        /\ \A i \in 1..Len(new.pos) :
               IF i > s /\ i <= s + N
               THEN /\ new.pos[i] =
                         Vadd(Apply(EffRot(i - s), Vsub(OldAt(old.pos, i), A)),
                              A)
                    /\ new.rot[i] = Mul(EffRot(i - s), OldAt(old.rot, i))
               ELSE /\ new.pos[i] = old.pos[i]
                    /\ new.rot[i] = old.rot[i]

CollectionRotateNoAnchor ==
    tr.op = "rotate" /\ Kind(tr.target) = "Collection"
        /\ tr.anchor.tag = "None"

LastOf(path) == path[Len(path)]

RotateAppended(o, r, anchor) == _rotate(o, <<r>>, anchor, StartAppend, FALSE)

\* the three calls rotate(obj, r1); rotate(obj, r2); rotate(obj, r3)
ThreeCalls(o, inp, anchor) ==
    RotateAppended(RotateAppended(RotateAppended(o, inp[1], anchor),
                                  inp[2], anchor),
                   inp[3], anchor)

IncrementCallOfThree ==
    /\ tr.op = "rotate" /\ tr.increment /\ Len(tr.inp) = 3
    /\ Kind(tr.target) # "Collection"
    /\ tr.start \in {StartAt(-1), StartAppend}

\* C12: rotate(obj, [r1, r2, r3], increment=True), from the default start
\* or appended, leaves the object with the final orientation and the final
\* position of the three calls rotate(obj, r1), rotate(obj, r2),
\* rotate(obj, r3), each appended to the path, with or without an anchor.
C12_IncrementComposition ==
    IncrementCallOfThree =>
        LET seq == ThreeCalls(tr.pre[tr.target], tr.inp, tr.anchor)
            new == objs[tr.target]
        IN  /\ LastOf(new.rot) = LastOf(seq.rot)
            /\ LastOf(new.pos) = LastOf(seq.pos)

\* three rotations that do not commute, about an anchor, on an object that
\* already has a rotated path
C12_Witness ==
    /\ IncrementCallOfThree
    /\ tr.inp = <<Rz, Rx, Rx>>
    /\ tr.anchor = AnchorAt(<<1, 0, 0>>)
    /\ tr.start = StartAt(-1)
    /\ tr.pre["b1"].rot = <<Rx, Rz>>
    /\ LastOf(objs["b1"].rot) = Mul(Rx, Mul(Rx, Mul(Rz, Rz)))
    /\ LastOf(objs["b1"].rot) # Mul(Rz, Mul(Rx, Mul(Rx, Rz)))
    /\ Len(objs["b1"].pos) = 4

\* ------------------------------------------- properties: path lengths
\* C13: after any sequence of move and rotate calls, made on an object or
\* through a Collection, with any start, increment and anchor, every
\* object's position path and orientation path have the same length.
C13_PathLengthsEqual ==
    \A o \in DOMAIN objs : Len(objs[o].pos) = Len(objs[o].rot)

\* a move through the collection and a rotate of one child have extended
\* the paths of the children to different lengths
C13_Witness ==
    /\ tr.n = 2
    /\ tr.op = "rotate" /\ tr.target = "b1" /\ tr.anchor = NoAnchor
    /\ Len(tr.inp) = 2 /\ tr.start = StartAppend
    /\ Len(objs["b1"].pos) = 6
    /\ Len(objs["sp"].pos) = 3
    /\ Len(objs["c1"].rot) = 3

\* --------------------------------------------------- properties: RCS
\* the call recorded in tr was rejected
Rejected == tr.outcome = "SystemExit"

\* C14: when setPosition, setOrientation, move or rotate rejects its input
\* the object's stored position, angle and axis are what they were before
\* the call.
C14_RejectedNoMutation ==
    (tr.op \in {"setPosition", "setOrientation", "move", "rotate"}
        /\ Rejected) => objs = tr.pre

\* a rotation was requested about a zero-length axis
ZeroAxisCall ==
    /\ tr.op \in {"rotate", "rotobj_from_angax"}
    /\ ~tr.axis.nan /\ Len(tr.axis.v) = 3 /\ SumSq(tr.axis) = 0

\* C16: a rotation requested with a zero-length axis is rejected as an
\* error by RCS.rotate and by rotobj_from_angax; it is never turned into a
\* rotation.
C16_ZeroAxisRejected ==
    ZeroAxisCall => tr.outcome # "ok"

\* RCS.rotate has returned
RotateReturned == tr.op = "rotate" /\ tr.outcome = "ok"

\* the quaternion RCS.rotate composes: P of the input times Q of the
\* orientation stored before the call
Composed ==
    Qmult(getRotQuat(tr.angle, tr.axis),
          getRotQuat(tr.pre["m1"].angle, tr.pre["m1"].axis))

C17_WitnessComposed ==
    /\ RotateReturned
    /\ tr.pre["m1"].angle = Num(180)
    /\ tr.pre["m1"].axis = Arr(<<0, 0, 1>>)
    /\ tr.angle = Num(180) /\ tr.axis = Arr(<<2, 0, 0>>)
    /\ objs["m1"].angle = Num(180)
    /\ objs["m1"].axis = Arr(<<0, -1, 0>>)

\* C18: RCS.__init__ and setOrientation reject an orientation axis that
\* has not exactly 3 components or that contains NaN, as they reject a
\* malformed position.
C18_BadAxisRejected ==
    (tr.op \in {"__init__", "setOrientation"}
        /\ (tr.axis.nan \/ Len(tr.axis.v) # 3))
        => tr.outcome = "SystemExit"

\* ---------------------------------------------- properties: field_func
\* C19: an assignment to field_func validates the value once before it is
\* stored; on a source that is not editable it raises AttributeError; a
\* failed assignment leaves the stored function as it was; getB and getH
\* do not validate.
C19_FieldFuncAssignment ==
    /\ tr.op = "field_func" =>
          LET old == tr.pre[tr.target]
              new == objs[tr.target]
          IN  /\ ~old.editable => tr.outcome = "AttributeError"
              /\ tr.outcome # "ok" => new.field_func = old.field_func
              /\ tr.outcome = "ok" =>
                    /\ new.field_func = tr.val
                    /\ ValidFunc(tr.val)
                    /\ new.validated = old.validated + 1
              /\ new.validated <= old.validated + 1
    /\ tr.op \in {"getB", "getH"} =>
          /\ objs[tr.target].validated = tr.pre[tr.target].validated
          /\ objs[tr.target].field_func = tr.pre[tr.target].field_func

\* a callable with the wrong arguments was refused and f is still stored
C19_Witness ==
    /\ tr.op = "field_func" /\ tr.target = "cs1"
    /\ tr.val = "wrong_args" /\ tr.outcome = "MagpylibBadUserInput"
    /\ tr.pre["cs1"].field_func = "f"
    /\ objs["cs1"].field_func = "f"

\* an original source refused the assignment
C19_WitnessNotEditable ==
    /\ tr.op = "field_func" /\ tr.target = "cb1"
    /\ tr.outcome = "AttributeError"
    /\ objs["cb1"].field_func = "None"

\* getH after an assignment: one validation in all
C19_WitnessGet ==
    /\ tr.op = "getH" /\ tr.target = "cs1"
    /\ objs["cs1"].field_func = "g"
    /\ objs["cs1"].validated = 1

\* ---------------------------------------------- properties: flattening
\* every concrete object below an item, collections and lists expanded to
\* any depth, in the order of the input
RECURSIVE ConcreteOfId(_)
ConcreteOfId(id) ==
    IF Kind(id) # "Collection" THEN <<id>>
    ELSE LET ch == Children(id)
             F[i \in 0..Len(ch)] ==
                 IF i = 0 THEN <<>> ELSE F[i - 1] \o ConcreteOfId(ch[i])
         IN  F[Len(ch)]

RECURSIVE ConcreteOf(_)
ConcreteOf(items) ==
    IF items = <<>> THEN <<>>
    ELSE LET it == Head(items)
         IN  (IF it.tag = "list" THEN ConcreteOf(it.items)
              ELSE ConcreteOfId(it.id)) \o ConcreteOf(Tail(items))

\* a flattening function has returned
Flattened ==
    tr.op \in {"format_obj_input", "format_src_input"} /\ tr.outcome = "ok"

\* C20: flattening returns every concrete object of the input in its
\* original relative order, collections inside collections and inside
\* nested lists expanded, no member of a nested collection lost.
C20_FlattenComplete ==
    Flattened => tr.result = ConcreteOf(tr.input)

\* the input mentions a collection that holds a collection
RECURSIVE HoldsNested(_)
HoldsNested(items) ==
    \E i \in DOMAIN items :
        IF items[i].tag = "list" THEN HoldsNested(items[i].items)
        ELSE \E k \in DOMAIN Children(items[i].id) :
                Kind(Children(items[i].id)[k]) = "Collection"

\* without a collection inside a collection the flattening is complete
C20_FlatCollections ==
    (Flattened /\ ~HoldsNested(tr.input)) => tr.result = ConcreteOf(tr.input)

\* a collection inside a list inside a list was expanded in order
C20_WitnessLists ==
    /\ Flattened /\ tr.op = "format_obj_input"
    /\ tr.input = <<ListOf(<<ListOf(<<Leaf("b2"), Leaf("c1")>>),
                             Leaf("b1")>>), Leaf("s1")>>
    /\ tr.result = <<"b2", "sp", "b1", "b1", "s1">>

\* ------------------------------------------ properties: check_duplicates
\* the distinct entries of a list in the order of their first occurrence
FirstOccurrences(list) ==
    SelectSeq([i \in DOMAIN list |->
                  IF \E k \in 1..(i - 1) : list[k] = list[i] THEN "" ELSE list[i]],
              LAMBDA x : x # "")

DuplicatesReturned == tr.op \in {"check_duplicates", "check_duplicates3"}

\* C21: check_duplicates returns the distinct objects of its input, each
\* once, in the order of their first occurrence; a list without duplicates
\* is returned unchanged.
C21_FirstOccurrenceOrder ==
    DuplicatesReturned =>
        /\ tr.result = FirstOccurrences(tr.input)
        /\ Cardinality(Range(tr.input)) = Len(tr.input) => tr.result = tr.input

\* the same for the check_duplicates of magpylib._src alone
C21_SrcVersionOrder ==
    tr.op = "check_duplicates" => tr.result = FirstOccurrences(tr.input)

\* ------------------------------------------- properties: tetrahedron
TetraReturned == tr.op = "magnet_tetrahedron_field" /\ tr.outcome = "ok"

\* C22: magnet_tetrahedron_field is a pure function of its arguments: after
\* the call the caller's vertices, observers and polarization arrays hold
\* the values they held before, left-handed tetrahedra included.
C22_ArgumentsUnchanged ==
    tr.op = "magnet_tetrahedron_field" => objs = tr.pre

\* the observers and the polarization are never written
C22_ObserversPolarizationUnchanged ==
    tr.op = "magnet_tetrahedron_field" =>
        /\ objs["observers"] = tr.pre["observers"]
        /\ objs["polarization"] = tr.pre["polarization"]

\* the affine coordinates of p with respect to vertex 0 of t (p - t0 is
\* the sum of coordinate k times edge k) are all in [0,1] and sum to at
\* most 1; coordinate k is nm[k] / dt
AffineInside(p, t) ==
    LET e  == [k \in 1..3 |-> Vsub(t[k + 1], t[1])]
        d  == Vsub(p, t[1])
        dt == Det3(e[1], e[2], e[3])
        nm == <<Det3(d, e[2], e[3]), Det3(e[1], d, e[3]), Det3(e[1], e[2], d)>>
        Leq(a, b) == IF dt > 0 THEN a <= b ELSE b <= a
    IN  /\ \A k \in 1..3 : Leq(0, nm[k]) /\ Leq(nm[k], dt)
        /\ Leq(nm[1] + nm[2] + nm[3], dt)

\* C28: for field B with in_out = 'auto' the polarization is added to
\* exactly the observers whose affine coordinates with respect to vertex 0
\* are all in [0,1] and sum to at most 1; with 'inside' it is added to
\* all, with 'outside' to none; for field H it is never added.
C28_PolarizationAdded ==
    TetraReturned =>
        \A i \in DOMAIN tr.result :
            LET pol    == tr.pre["polarization"][i]
                inside ==
                    CASE tr.field = "H" -> FALSE
                      [] tr.in_out = "inside" -> TRUE
                      [] tr.in_out = "outside" -> FALSE
                      [] OTHER -> AffineInside(tr.pre["observers"][i],
                                               tr.pre["vertices"][i])
            IN  tr.result[i].added = IF inside THEN pol ELSE Zero3

\* an observer on a face of a left-handed tetrahedron got the polarization,
\* an observer outside of it with all coordinates in [0,1] did not
C28_Witness ==
    /\ TetraReturned /\ tr.field = "B" /\ tr.in_out = "auto"
    /\ tr.pre["vertices"][1] = <<Zero3, <<4, 0, 0>>, <<0, 0, 4>>, <<0, 4, 0>>>>
    /\ tr.pre["vertices"][2] = tr.pre["vertices"][1]
    /\ tr.pre["observers"] = <<<<2, 1, 1>>, <<2, 2, 1>>>>
    /\ tr.result[1].added = <<1, 2, 3>>
    /\ tr.result[2].added = Zero3

\* C29: check_chirality returns the same four vertices with vertices 0 and
\* 1 in place and a non-negative signed volume; vertices 2 and 3 are
\* swapped exactly for the tetrahedra whose determinant was negative; a
\* second application changes nothing.
C29_Chirality ==
    tr.op = "check_chirality" =>
        \A m \in DOMAIN tr.result :
            LET old == tr.pre["vertices"][m]
                new == tr.result[m]
            IN  /\ new[1] = old[1] /\ new[2] = old[2]
                /\ TetraDet(new) >= 0
                /\ TetraDet(old) < 0 => new[3] = old[4] /\ new[4] = old[3]
                /\ TetraDet(old) >= 0 => new = old
                /\ check_chirality(tr.result) = tr.result
                /\ objs["vertices"] = tr.result

\* a left-handed tetrahedron was turned, the right-handed one next to it
\* was not
C29_Witness ==
    /\ tr.op = "check_chirality"
    /\ tr.pre["vertices"] =
          <<<<(<<-1, 0, 0>>), (<<1, -1, 0>>), (<<0, 0, 1>>), (<<1, 1, 0>>)>>,
            <<Zero3, <<4, 0, 0>>, <<0, 4, 0>>, <<0, 0, 4>>>>>>
    /\ tr.result =
          <<<<(<<-1, 0, 0>>), (<<1, -1, 0>>), (<<1, 1, 0>>), (<<0, 0, 1>>)>>,
            <<Zero3, <<4, 0, 0>>, <<0, 4, 0>>, <<0, 0, 4>>>>>>

\* the four triangles handed to triangle_field for tetrahedron i
FacesOf(i) ==
    LET n == Len(tr.pre["vertices"])
    IN  [k \in 1..4 |-> tr.tri[(k - 1) * n + i]]

\* C30: for every non-degenerate tetrahedron the four triangles passed to
\* triangle_field are the four distinct faces of the tetrahedron, and the
\* normal (v1-v0) x (v2-v0) of each points away from the vertex the
\* triangle omits.
C30_OutwardFaces ==
    TetraReturned =>
        \A i \in DOMAIN tr.pre["vertices"] :
            TetraDet(tr.pre["vertices"][i]) # 0 =>
                LET corners == Range(tr.pre["vertices"][i])
                    faces   == FacesOf(i)
                IN  /\ \A k \in 1..4 :
                          /\ Range(faces[k]) \subseteq corners
                          /\ Cardinality(Range(faces[k])) = 3
                          /\ \A v \in corners \ Range(faces[k]) :
                                Dot(Cross(Vsub(faces[k][2], faces[k][1]),
                                          Vsub(faces[k][3], faces[k][1])),
                                    Vsub(v, faces[k][1])) < 0
                    /\ Cardinality({Range(faces[k]) : k \in 1..4}) = 4

\* the triangles of a tetrahedron given left-handed
C30_Witness ==
    /\ TetraReturned
    /\ tr.pre["vertices"][1] =
          <<(<<-1, 0, 0>>), (<<1, -1, 0>>), (<<0, 0, 1>>), (<<1, 1, 0>>)>>
    /\ FacesOf(1)[1] = <<(<<-1, 0, 0>>), (<<1, 1, 0>>), (<<1, -1, 0>>)>>
    /\ FacesOf(1)[3] = <<(<<1, -1, 0>>), (<<1, 1, 0>>), (<<0, 0, 1>>)>>

\* ---------------------------------------------- properties: Bfield_Box
BoxReturned == tr.op = "Bfield_Box"

\* half dimensions and observer of the call
BoxHalf == [k \in 1..3 |-> tr.pre["dim"][k] \div 2]
BoxPos == tr.pre["pos"]

\* the planes of the faces the point p lies on
PlanesThrough(p, h) == {k \in 1..3 : Abs(p[k]) = h[k]}

\* the faces of the cuboid p lies on: on the plane and within the face
FacesThrough(p, h) ==
    {k \in PlanesThrough(p, h) : \A j \in 1..3 : Abs(p[j]) <= h[j]}

\* C26: Bfield_Box shifts the observer by 1e-6 in all three coordinates if
\* it lies on two or more bounding faces of the cuboid (an edge or a
\* vertex); an observer on at most one face plane is evaluated as given.
C26_EdgeShift ==
    BoxReturned =>
        /\ Cardinality(FacesThrough(BoxPos, BoxHalf)) >= 2 =>
              tr.result.at = <<BoxPos[1] + Eps, BoxPos[2] + Eps, BoxPos[3] + Eps>>
        /\ Cardinality(PlanesThrough(BoxPos, BoxHalf)) <= 1 =>
              tr.result.at = BoxPos

\* an observer on an edge was shifted
C26_Witness ==
    /\ BoxReturned
    /\ tr.pre["dim"] = <<4, 6, 8>> /\ BoxPos = <<2, -3, 0>>
    /\ tr.result.at = <<3, -2, 1>>

\* an observer on one face was not
C26_WitnessFace ==
    /\ BoxReturned
    /\ tr.pre["dim"] = <<4, 6, 8>> /\ BoxPos = <<2, 0, 0>>
    /\ tr.result.at = <<2, 0, 0>>

\* p is strictly inside the cuboid of half dimensions h
StrictlyInside(p, h) == \A k \in 1..3 : Abs(p[k]) < h[k]

\* the given observer lies on the surface of the cuboid
OnSurface(p, h) == FacesThrough(p, h) # {}

\* C27: Bfield_Box adds the magnetization exactly when the (possibly
\* shifted) observer is strictly inside the cuboid in the original
\* coordinates and half dimensions, the test made after the two
\* permutations being equivalent to that; an observer on the surface gets
\* no magnetization added.
C27_InsideMagnetization ==
    BoxReturned =>
        /\ tr.result.added =
              IF StrictlyInside(tr.result.at, BoxHalf) THEN tr.pre["MAG"]
              ELSE Zero3
        /\ OnSurface(BoxPos, BoxHalf) => tr.result.added = Zero3

\* the first part alone: the test after the permutations is the test in
\* the original coordinates, made on the observer the field is evaluated at
C27_PermutedTest ==
    BoxReturned =>
        /\ tr.result.added =
              IF StrictlyInside(tr.result.at, BoxHalf) THEN tr.pre["MAG"]
              ELSE Zero3
        /\ OnSurface(tr.result.at, BoxHalf) => tr.result.added = Zero3

\* ------------------------------------------ properties: empty collection
\* a call whose sources hold the empty collection next to library objects
WithEmptyCollection ==
    /\ "cE" \in Range(fr.sources)
    /\ Len(fr.sources) > 1
    /\ Range(fr.sources) \cap Strangers = {}

\* C25: a top-level collection without sources contributes its own zero
\* entry at its index of the source axis, and the entries of the other
\* top-level sources and collections are at their index with their value.
C25_EmptyCollectionEntry ==
    (Returned /\ ~fr.sumup /\ WithEmptyCollection) =>
        /\ Len(fr.B) = Len(fr.sources)
        /\ \A i \in DOMAIN fr.sources, j \in 1..ClaimM,
              k \in DOMAIN ClaimSensors(fr.obs) :
              \A p \in DOMAIN ClaimSensors(fr.obs)[k].pix.flat :
                 LET kp == Len(ClaimSensors(fr.obs)[1].pix.flat)
                 IN  fr.B[i][j][(k - 1) * kp + p] = Expected(i, j, k, p)

\* ------------------------------------------ properties: sensor rotation
\* the sensor a pixel column q of B belongs to, the sensors having equally
\* many pixels
SensorOfColumn(q, n_pix) ==
    ((q - 1) \div (n_pix \div Len(fr.sensors))) + 1

\* C24: the field vector of sensor i at path step j is the global-frame
\* field rotated by the inverse of sensor i's orientation at step j, for
\* every source entry and every pixel of that sensor and of no other; the
\* skip for unit orientation and the shortcut for a constant orientation
\* give what the per-step rotation gives.
C24_SensorFrame ==
    [][(pc = "sensrot" /\ pc' = "shape") =>
         /\ DOMAIN fr'.B = DOMAIN fr.B
         /\ \A e \in DOMAIN fr.B : \A j \in DOMAIN fr.B[e] :
               \A q \in DOMAIN fr.B[e][j] :
                  LET sens == fr.sensors[SensorOfColumn(q, Len(fr.B[e][j]))]
                      r    == PathAt(fr.pre[sens].rot, j)
                  IN  fr'.B[e][j][q] = Apply(Inv(r), fr.B[e][j][q])]_vars

\* a sensor with a changing orientation was rotated back step by step,
\* for two source entries, next to a sensor of unit orientation
C24_Witness ==
    /\ pc = "shape"
    /\ Len(fr.sensors) = 2 /\ fr.sensors[1] = "s1"
    /\ fr.unrot = <<FALSE, TRUE>> /\ fr.static = <<FALSE, TRUE>>
    /\ fr.m = 3 /\ Len(fr.B) = 2

\* the shortcut for a constant orientation on a path, next to a sensor
\* of unit orientation that was skipped
C24_WitnessShortcut ==
    /\ pc = "shape"
    /\ Len(fr.sensors) = 2 /\ fr.sensors[1] = "s1"
    /\ fr.unrot = <<FALSE, TRUE>> /\ fr.static = <<TRUE, TRUE>>
    /\ fr.m = 3 /\ Len(fr.pre["s1"].pos) = 3

\* ------------------------------------- properties: unrecognised objects
\* the call has ended, by a return or by an error
Ended == pc \in {"done", "raised"}

UnrecognisedSource == Range(fr.sources) \cap Strangers # {}
UnrecognisedObserver == fr.obs.tag = "other"

\* C15: an object of unrecognised type in the sources input or in the
\* observers input makes the call fail with MagpylibBadUserInput: the call
\* neither returns a result nor raises another kind of error.
C15_UnrecognisedRejected ==
    (Ended /\ (UnrecognisedSource \/ UnrecognisedObserver)) =>
        pc = "raised" /\ fr.err = "MagpylibBadUserInput"

\* ------------------------------------ getBH_level2: two overlapping calls
\* Two calls of getBH_level2 run on the same source b1, call 1 with the
\* sensor s1 and call 2 with s2; a step of one call is one statement of
\* lines 199-222 or the loop of lines 299-302, and the steps of the two
\* calls interleave freely.  pc and fr are here per call.
Calls == {1, 2}

\* line 192: obj_list = src_list + sensors of call c
CallObjList(c) == <<"b1", IF c = 1 THEN "s1" ELSE "s2">>

\* a call that has begun and has neither returned nor raised
Running(c) == pc[c] \notin {"idle", "done", "raised"}

\* the frame of a call before it begins
IdleCall == [m |-> 0, i |-> 0, reset |-> <<>>, read |-> <<>>]

\* after the loop body of lines 208-212 for the object at index i
NextInLoop(c) ==
    IF fr[c].i < Len(CallObjList(c)) THEN "test" ELSE "read"

\* getBH_level2 is entered
Overlap_Call(c) ==
    /\ pc[c] = "idle"
    /\ pc' = [pc EXCEPT ![c] = "length"]
    /\ tr' = [tr EXCEPT !.n = @ + 1,
                !.overlap = @ \/ \E d \in Calls \ {c} : Running(d)]
    /\ UNCHANGED <<objs, fr>>

\* lines 199-203: m = get_good_path_length(obj_list); if m > 1
Overlap_Length(c) ==
    /\ pc[c] = "length"
    /\ LET m == get_good_path_length(objs, CallObjList(c))
       IN  IF m <= 0
           THEN /\ pc' = [pc EXCEPT ![c] = "raised"]
                /\ UNCHANGED fr
           ELSE /\ pc' = [pc EXCEPT ![c] = IF m > 1 THEN "test" ELSE "read"]
                /\ fr' = [fr EXCEPT ![c].m = m, ![c].i = 1]
    /\ UNCHANGED <<objs, tr>>

\* lines 208-209: if len(obj._pos) == 1: reset_objects += [obj]
Overlap_TileTest(c) ==
    /\ pc[c] = "test"
    /\ LET obj == CallObjList(c)[fr[c].i]
       IN  IF NeedsTile(Len(objs[obj].pos))
           THEN /\ pc' = [pc EXCEPT ![c] = "assign"]
                /\ fr' = [fr EXCEPT ![c].reset = @ \o <<obj>>]
           ELSE /\ pc' = [pc EXCEPT ![c] = NextInLoop(c)]
                /\ fr' = [fr EXCEPT ![c].i = @ + 1]
    /\ UNCHANGED <<objs, tr>>

\* lines 210-212: obj.pos = np.tile(obj.pos, (m,1)); obj.rot likewise
Overlap_TileAssign(c) ==
    /\ pc[c] = "assign"
    /\ LET obj == CallObjList(c)[fr[c].i]
       IN  objs' = [objs EXCEPT ![obj] = [pos |-> Tile(@.pos, fr[c].m),
                                          rot |-> Tile(@.rot, fr[c].m)]]
    /\ pc' = [pc EXCEPT ![c] = NextInLoop(c)]
    /\ fr' = [fr EXCEPT ![c].i = @ + 1]
    /\ UNCHANGED tr

\* lines 216-222 and get_src_dict: the paths of the objects are read; read
\* keeps the length each path had
Overlap_Read(c) ==
    /\ pc[c] = "read"
    /\ pc' = [pc EXCEPT ![c] = "reset"]
    /\ fr' = [fr EXCEPT ![c].read =
                 [k \in DOMAIN CallObjList(c) |->
                     Len(objs[CallObjList(c)[k]].pos)]]
    /\ UNCHANGED <<objs, tr>>

\* lines 299-304: the reset loop and the return
Overlap_Reset(c) ==
    /\ pc[c] = "reset"
    /\ objs' = ResetLoop(objs, fr[c].reset)
    /\ pc' = [pc EXCEPT ![c] = "done"]
    /\ UNCHANGED <<fr, tr>>

\* b1 has a single path entry, each sensor a path of its own length
InitO ==
    /\ \E n1 \in 1..MaxM, n2 \in 1..MaxM :
         objs = [o \in {"b1", "s1", "s2"} |->
            CASE o = "b1" -> StaticPath(<<1, 0, 0>>, UnitRot)
              [] o = "s1" -> PathOf(<<0, 0, 5>>, <<0, 0, 1>>, n1, <<UnitRot>>)
              [] OTHER -> PathOf(<<0, 0, 7>>, <<0, 1, 0>>, n2, <<Rx>>)]
    /\ tr = [n |-> 0, limit |-> 2, op |-> "getBH_level2", pre |-> objs,
             overlap |-> FALSE]
    /\ pc = [c \in Calls |-> "idle"]
    /\ fr = [c \in Calls |-> IdleCall]

NextO ==
    \/ \E c \in Calls : Overlap_Call(c)
    \/ \E c \in Calls : Overlap_Length(c)
    \/ \E c \in Calls : Overlap_TileTest(c)
    \/ \E c \in Calls : Overlap_TileAssign(c)
    \/ \E c \in Calls : Overlap_Read(c)
    \/ \E c \in Calls : Overlap_Reset(c)

SpecO == InitO /\ [][NextO]_vars

\* call c has read the paths, and one of them at a length other than its m
ReadOffLength(c) ==
    /\ pc[c] \in {"reset", "done"}
    /\ \E k \in DOMAIN fr[c].read : fr[c].read[k] # fr[c].m

\* both calls are over and an object is not as it was before them
LeftChanged ==
    /\ \A c \in Calls : pc[c] \in {"done", "raised"}
    /\ objs # tr.pre

\* C23: the tile/restore step is not reentrant-safe: a call reads a path at
\* a length other than the M it computed, or an object is left changed
\* after both calls, only in behaviours where the two calls overlapped (two
\* calls one after the other never do), and there is an interleaving of two
\* overlapping calls on the length-1 source b1 where it happens (C23_Witness)
C23_NotReentrant ==
    ((\E c \in Calls : ReadOffLength(c)) \/ LeftChanged) => tr.overlap

\* both calls computed M = 3 and have returned; one of them read the shared
\* length-1 source at a length other than 3
C23_Witness ==
    /\ \A c \in Calls : pc[c] = "done" /\ fr[c].m = 3
    /\ Len(tr.pre["b1"].pos) = 1
    /\ \E c \in Calls : fr[c].read[1] # fr[c].m

\* a call has tiled a path that the other call had tiled already
C23_WitnessTiledTwice ==
    \E c \in Calls : pc[c] = "done" /\ fr[c].m > 1 /\ fr[c].read[1] > fr[c].m

====
